---- MODULE Spec2Model ----
(***************************************************************************)
(* A model of ticdat's PanDatFactory (src/ticdat/pandatfactory.py): the    *)
(* schema with its freeze-on-first-use life cycle, and the validation and  *)
(* repair functions that work on a PanDat (one DataFrame per table).       *)
(*                                                                         *)
(* Two specifications share the variables:                                 *)
(*   Spec      the life cycle of one PanDatFactory: the schema mutators    *)
(*             and the PanDat constructor;                                 *)
(*   SpecData  one PanDatFactory whose schema is fixed, and a PanDat it is *)
(*             handed: find_* and remove_foreign_key_failures.             *)
(***************************************************************************)
EXTENDS Integers, Sequences, FiniteSets, TLC

VARIABLES
    has_been_used,        \* PanDatFactory._has_been_used
    data_types,           \* PanDatFactory._data_types, keyed by <<table, field>>
    default_values,       \* PanDatFactory._default_values, keyed by <<table, field>>
    data_row_predicates,  \* PanDatFactory._data_row_predicates, keyed by <<table, name>>
    foreign_keys,         \* PanDatFactory._foreign_keys, as a set of descriptors
    pan_dat,              \* the PanDat at hand: table name -> DataFrame
    pc,                   \* where the caller is: "idle", or inside the removal loop
    remove_rows,          \* the local remove_rows of remove_foreign_key_failures
    pan_dat_at_call,      \* the PanDat as it was when the running/last call started
    last_call,            \* the entry point called last
    raised,               \* TRUE when the last call ended in an exception
    rtn,                  \* what the last call returned
    nan_tuples_join,      \* pandas build: do compound join keys holding NaN match?
    dict_keeps_order      \* python build: does a dict iterate in insertion order?

vars == <<has_been_used, data_types, default_values, data_row_predicates,
          foreign_keys, pan_dat, pc, remove_rows, pan_dat_at_call, last_call,
          raised, rtn, nan_tuples_join, dict_keeps_order>>

\* what depends on the build the program runs on
build_vars == <<nan_tuples_join, dict_keeps_order>>

schema_vars == <<data_types, default_values, data_row_predicates, foreign_keys>>

(***************************************************************************)
(* Bounds of the model.                                                    *)
(***************************************************************************)
\* rows of the initial PanDat of SpecData, over all its tables together
MaxRows == 2

(***************************************************************************)
(* Scalars.  pandas renders None as NaN; both are NULL here.               *)
(***************************************************************************)
\* a number is num + tenths/10, with tenths in 0..9
Dec(n, d) == [kind |-> "number", num |-> n, tenths |-> d, str |-> ""]
Num(n) == Dec(n, 0)
Str(s) == [kind |-> "string", num |-> 0, tenths |-> 0, str |-> s]
NULL == [kind |-> "null", num |-> 0, tenths |-> 0, str |-> ""]

\* the values the cells of the initial PanDat of SpecData are drawn from
KeyValues == {Num(1), Num(2), NULL}

(***************************************************************************)
(* The schema the factory is constructed with:                             *)
(*   A = [["a"], ["b"]], B = [["a", "b"], []], C = [[], ["c"]] and the      *)
(*   generic table G.                                                      *)
(***************************************************************************)
generic_tables == {"G"}
primary_key_fields == [A |-> <<"a">>, B |-> <<"a", "b">>, C |-> <<>>]
data_fields == [A |-> <<"b">>, B |-> <<>>, C |-> <<"c">>]
all_tables == (DOMAIN primary_key_fields) \cup generic_tables

\* utils.all_fields / PanDatFactory._all_fields: primary key fields, then data fields
all_fields(t) ==
    IF t \in generic_tables THEN <<>> ELSE primary_key_fields[t] \o data_fields[t]

Range(s) == {s[i] : i \in 1..Len(s)}

(***************************************************************************)
(* pandas.DataFrame: the ordered column names and the rows in order, each  *)
(* row a function from the column names to scalars.                        *)
(***************************************************************************)
DataFrame(cols, rws) == [columns |-> cols, rows |-> rws]

\* df[mask] with a boolean list: the rows at the positions where mask is TRUE
RECURSIVE select_rows(_, _)
select_rows(rws, mask) ==
    IF rws = <<>> THEN <<>>
    ELSE LET n == Len(rws)
             front == select_rows(SubSeq(rws, 1, n - 1), SubSeq(mask, 1, n - 1))
         IN  IF mask[n] THEN Append(front, rws[n]) ELSE front

\* the values of a row in the columns `subset`, in that order
key_of(row, subset) == [i \in 1..Len(subset) |-> row[subset[i]]]

\* DataFrame.duplicated(subset, keep): pandas takes NaN to equal NaN here
duplicated(rws, subset, keep) ==
    [i \in 1..Len(rws) |->
        LET same(j) == key_of(rws[j], subset) = key_of(rws[i], subset)
        IN  CASE keep = "first" -> \E j \in 1..(i - 1) : same(j)
              [] keep = "last"  -> \E j \in (i + 1)..Len(rws) : same(j)
              [] OTHER          -> \E j \in 1..Len(rws) : j # i /\ same(j)]

\* DataFrame.drop_duplicates(subset): only the first row of each key is kept
drop_duplicates(rws, subset) ==
    select_rows(rws, [i \in 1..Len(rws) |-> ~duplicated(rws, subset, "first")[i]])

\* df[col] = value, on one row: an existing column is overwritten, a new one added
set_column(row, col, v) ==
    [c \in (DOMAIN row) \cup {col} |-> IF c = col THEN v ELSE row[c]]

(***************************************************************************)
(* Foreign keys.  A descriptor is [native_table, foreign_table, mappings],  *)
(* mappings being the tuple of <<native field, foreign field>> pairs that   *)
(* add_foreign_key stores (tuple(_mappings.items())).                       *)
(***************************************************************************)
FK(native, foreign, mappings) ==
    [native_table |-> native, foreign_table |-> foreign, mappings |-> mappings]

native_fields(mappings) == [i \in 1..Len(mappings) |-> mappings[i][1]]
foreign_fields(mappings) == [i \in 1..Len(mappings) |-> mappings[i][2]]

\* for _ in mappings: parent[_.native_field] = parent[_.foreign_field]
\* one pair after the other, each on the frame the earlier ones have written
RECURSIVE assign_native_fields(_, _, _)
assign_native_fields(row, mappings, i) ==
    IF i > Len(mappings) THEN row
    ELSE assign_native_fields(
             set_column(row, mappings[i][1], row[mappings[i][2]]), mappings, i + 1)

\* parent after drop_duplicates, the column assignments and set_index(new_index):
\* the index entry of each parent row that is left
parent_index(fk, dat) ==
    LET parent == drop_duplicates(dat[fk.foreign_table].rows,
                                  foreign_fields(fk.mappings))
    IN  [j \in 1..Len(parent) |->
            key_of(assign_native_fields(parent[j], fk.mappings, 1),
                   native_fields(fk.mappings))]

\* child after set_index(new_index): the index entry of each native row
child_index(fk, dat) ==
    LET child == dat[fk.native_table].rows
    IN  [i \in 1..Len(child) |-> key_of(child[i], native_fields(fk.mappings))]

\* join_keys_match as SQL would have it: NULL meets nothing
join_keys_match_null_never(ck, pk, nj) ==
    /\ ck = pk
    /\ \A i \in 1..Len(ck) : ck[i] # NULL

\* do two index entries meet in child.join(parent)?  A single-level index
\* matches NaN with NaN; for a MultiIndex entry holding NaN it depends on the
\* pandas build (nj)
join_keys_match(ck, pk, nj) ==
    /\ ck = pk
    /\ \/ Len(ck) = 1
       \/ nj
       \/ \A i \in 1..Len(ck) : ck[i] # NULL

\* list(child.apply(lambda row: row[magic_field*2] in bad_rows, axis=1)):
\* TRUE at the native rows the left join found no parent for
failure_mask(fk, dat, nj) ==
    LET cidx == child_index(fk, dat)
        pidx == parent_index(fk, dat)
    IN  [i \in 1..Len(cidx) |->
            ~\E j \in 1..Len(pidx) : join_keys_match(cidx[i], pidx[j], nj)]

any(mask) == \E i \in 1..Len(mask) : mask[i]

\* _find_foreign_key_failure_rows without its else branch: compound keys skipped
find_foreign_key_failure_rows_simple_only(fks, dat, nj) ==
    LET bad == {fk \in fks : Len(fk.mappings) = 1 /\ any(failure_mask(fk, dat, nj))}
    IN  [fk \in bad |-> failure_mask(fk, dat, nj)]

\* _find_foreign_key_failure_rows: foreign key -> mask, only where a row fails
find_foreign_key_failure_rows(fks, dat, nj) ==
    LET bad == {fk \in fks : any(failure_mask(fk, dat, nj))}
    IN  [fk \in bad |-> failure_mask(fk, dat, nj)]

\* _find_foreign_key_failure_rows with drop_duplicates(..., inplace=True) and no
\* copy: the caller's foreign tables lose their rows of repeated key
pan_dat_after_find_fk_inplace(fks, dat) ==
    [t \in DOMAIN dat |->
        IF \E fk \in fks : fk.foreign_table = t
        THEN LET fk == CHOOSE f \in fks : f.foreign_table = t
             IN  DataFrame(dat[t].columns,
                           drop_duplicates(dat[t].rows, foreign_fields(fk.mappings)))
        ELSE dat[t]]

\* the caller's pan_dat once _find_foreign_key_failure_rows has returned: child
\* and parent are deep copies, every in-place step works on them
pan_dat_after_find_fk(fks, dat) == dat

\* drop_failures that blanks the failing rows instead of dropping them
drop_failures_blanking(df, rows) ==
    DataFrame(df.columns,
              [i \in 1..Len(df.rows) |->
                  IF rows[i] THEN [c \in DOMAIN df.rows[i] |-> NULL] ELSE df.rows[i]])

\* getattr(pan_dat, native)[[not _ for _ in rows]].copy(deep=True)
drop_failures(df, rows) ==
    DataFrame(df.columns,
              select_rows(df.rows, [i \in 1..Len(rows) |-> ~rows[i]]))

\* remove_failures_of with setattr on the foreign table
remove_failures_of_foreign(dat, fk, rows) ==
    [dat EXCEPT ![fk.foreign_table] = drop_failures(dat[fk.native_table], rows)]

\* setattr(pan_dat, native, ...): one bulk removal, in the native table of fk
remove_failures_of(dat, fk, rows) ==
    [dat EXCEPT ![fk.native_table] = drop_failures(dat[fk.native_table], rows)]

\* the loop body without the recomputation: the chosen key is popped and the
\* masks of the other keys are kept as they were
remove_loop_body_stale(fks, dat, rr, fk, nj) ==
    [pan_dat |-> remove_failures_of(dat, fk, rr[fk]),
     remove_rows |-> [f \in (DOMAIN rr) \ {fk} |-> rr[f]]]

\* the body of the while loop for the key fk: the bulk removal, then
\* remove_rows = self._find_foreign_key_failure_rows(pan_dat)
remove_loop_body(fks, dat, rr, fk, nj) ==
    LET removed == remove_failures_of(dat, fk, rr[fk])
    IN  [pan_dat |-> pan_dat_after_find_fk(fks, removed),
         remove_rows |-> find_foreign_key_failure_rows(fks, removed, nj)]

\* find_duplicates without the test of self.primary_key_fields.get(t)
find_duplicates_of_every_table(dat, keep) ==
    LET dups(t) == duplicated(dat[t].rows, primary_key_fields[t], keep)
        hit == {t \in all_tables \ generic_tables : any(dups(t))}
    IN  [t \in hit |-> dups(t)]

\* find_duplicates(as_table=False): table -> mask, for the tables with a
\* primary key that hold a duplicated key
find_duplicates(dat, keep) ==
    LET dups(t) == duplicated(dat[t].rows, primary_key_fields[t], keep)
        hit == {t \in all_tables \ generic_tables :
                   primary_key_fields[t] # <<>> /\ any(dups(t))}
    IN  [t \in hit |-> dups(t)]

pan_dat_after_find_duplicates(dat) == dat

(***************************************************************************)
(* Type rules.  A bound is a finite integer or float("inf"); a caller may  *)
(* also pass what is no number.                                            *)
(***************************************************************************)
Fin(n) == [inf |-> FALSE, n |-> n, numeric |-> TRUE]
Inf == [inf |-> TRUE, n |-> 0, numeric |-> TRUE]
NotNumeric == [inf |-> FALSE, n |-> 0, numeric |-> FALSE]

\* utils.numericish
numericish(b) == b.numeric

\* strings_allowed: the one-character wildcard, or a container of strings
AnyString == [any |-> TRUE, strings |-> {}]
Strings(S) == [any |-> FALSE, strings |-> S]

TypeDictionary(number_allowed, inclusive_min, inclusive_max, min, max, must_be_int, strings_allowed, nullable) ==
    [number_allowed |-> number_allowed, inclusive_min |-> inclusive_min,
     inclusive_max |-> inclusive_max, min |-> min, max |-> max,
     must_be_int |-> must_be_int, strings_allowed |-> strings_allowed,
     nullable |-> nullable]

\* max >= min, on bounds
bound_geq(max, min) == max.inf \/ (~min.inf /\ max.n >= min.n)

\* is the number v above the bound min (at it, when inclusive)?
above_min(v, min, inclusive) ==
    /\ ~min.inf
    /\ \/ v.num > min.n
       \/ v.num = min.n /\ v.tenths > 0
       \/ v.num = min.n /\ v.tenths = 0 /\ inclusive

\* is the number v below the bound max (at it, when inclusive)?
below_max(v, max, inclusive) ==
    \/ max.inf
    \/ v.num < max.n
    \/ v.num = max.n /\ v.tenths = 0 /\ inclusive

\* TypeDictionary.valid_data
valid_data(data_type, data) ==
    CASE data.kind = "null" -> data_type.nullable
      [] data.kind = "number" ->
            /\ data_type.number_allowed
            /\ data_type.must_be_int => data.tenths = 0
            /\ above_min(data, data_type.min, data_type.inclusive_min)
            /\ below_max(data, data_type.max, data_type.inclusive_max)
      [] data.kind = "string" ->
            \/ data_type.strings_allowed.any
            \/ data.str \in data_type.strings_allowed.strings
      [] OTHER -> FALSE

\* find_data_type_failures without the test where_bad_rows.any()
find_data_type_failures_of_every_rule(dts, dat) ==
    [tf \in DOMAIN dts |->
        [i \in 1..Len(dat[tf[1]].rows) |->
            ~valid_data(dts[tf], dat[tf[1]].rows[i][tf[2]])]]

\* find_data_type_failures(as_table=False): <<table, field>> -> mask, for the
\* typed fields that hold a value their type refuses
find_data_type_failures(dts, dat) ==
    LET where_bad_rows(tf) ==
            [i \in 1..Len(dat[tf[1]].rows) |->
                ~valid_data(dts[tf], dat[tf[1]].rows[i][tf[2]])]
        hit == {tf \in DOMAIN dts : any(where_bad_rows(tf))}
    IN  [tf \in hit |-> where_bad_rows(tf)]

pan_dat_after_find_data_type_failures(dat) == dat

(***************************************************************************)
(* Row predicates: the functions a caller registers, by what they compute.  *)
(***************************************************************************)
\* p(row), row mapping every column of the table to its value:
\*   no_null   == lambda row: not row.isnull().any()
\*   all_equal == lambda row: row["a"] == row["b"]
apply_predicate(p, row) ==
    CASE p = "no_null"   -> \A c \in DOMAIN row : row[c] # NULL
      [] p = "all_equal" -> \A c, d \in DOMAIN row : row[c] = row[d]
      [] OTHER           -> FALSE

\* p(row) raises for the row without columns that DataFrame.apply passes to
\* the function when the table has no row: a predicate that reads a field by
\* its name raises KeyError
raises_on_empty_row(p) == p = "all_equal"

\* _table.apply(bad_row, axis=1) is a copy of the table, and no mask, when the
\* table has no row and bad_row raises for the row without columns; the truth
\* value of where_bad_rows.any() is then the one of a Series, a ValueError
any_is_ambiguous(preds, dat) ==
    \E tp \in DOMAIN preds :
        /\ Len(dat[tp[1]].rows) = 0
        /\ raises_on_empty_row(preds[tp])

\* find_data_row_failures(as_table=False): <<table, predicate name>> -> mask,
\* for the predicates some row fails
find_data_row_failures(preds, dat) ==
    LET where_bad_rows(tp) ==
            [i \in 1..Len(dat[tp[1]].rows) |->
                ~apply_predicate(preds[tp], dat[tp[1]].rows[i])]
        hit == {tp \in DOMAIN preds : any(where_bad_rows(tp))}
    IN  [tp \in hit |-> where_bad_rows(tp)]

pan_dat_after_find_data_row_failures(dat) == dat

(***************************************************************************)
(* SpecData: the schema of a factory and a PanDat that is good for it.     *)
(***************************************************************************)
\* foreign keys add_foreign_key accepts for init_fields
fk_A_b_B_a == FK("A", "B", << <<"b", "a">> >>)
fk_B_b_A_a == FK("B", "A", << <<"b", "a">> >>)
fk_A_b_A_a == FK("A", "A", << <<"b", "a">> >>)
fk_A_a_B_b == FK("A", "B", << <<"a", "b">> >>)
fk_C_c_A_a == FK("C", "A", << <<"c", "a">> >>)
fk_A_B_same == FK("A", "B", << <<"a", "a">>, <<"b", "b">> >>)
fk_A_B_swap == FK("A", "B", << <<"a", "b">>, <<"b", "a">> >>)

\* the sets of foreign keys the schema of SpecData is drawn from
fk_schemas ==
    { {},
      {fk_A_b_B_a},
      {fk_A_b_A_a},
      {fk_A_b_B_a, fk_B_b_A_a},
      {fk_C_c_A_a, fk_A_b_B_a},
      {fk_A_b_B_a, fk_A_a_B_b},
      {fk_A_B_same},
      {fk_A_B_swap} }

\* self._default_values after __init__: 0 for every data field
initial_default_values ==
    [tf \in UNION {{<<t, f>> : f \in Range(data_fields[t])} :
                       t \in DOMAIN data_fields} |-> Num(0)]

\* tf :> dt for the one pair tf
one_entry(k, v) == [x \in {k} |-> v]

\* the type rules and row predicates of the schema of SpecData:
\*   set_data_type("A", "b", min=1, max=2)
\*   add_data_row_predicate("A", all_equal), add_data_row_predicate("B", no_null)
data_types_of_SpecData ==
    one_entry(<<"A", "b">>,
              TypeDictionary(TRUE, TRUE, FALSE, Fin(1), Fin(2), FALSE,
                             Strings({}), FALSE))

predicates_of_SpecData ==
    [tp \in {<<"A", "0">>, <<"B", "0">>} |->
        IF tp[1] = "A" THEN "all_equal" ELSE "no_null"]

rows_of(t) == [Range(all_fields(t)) -> KeyValues]

empty_frame(t) == DataFrame(all_fields(t), <<>>)

InitData ==
    /\ has_been_used = TRUE
    /\ data_types = data_types_of_SpecData
    /\ default_values = initial_default_values
    /\ data_row_predicates = predicates_of_SpecData
    /\ foreign_keys \in fk_schemas
    /\ nan_tuples_join \in BOOLEAN
    /\ dict_keeps_order = TRUE
    /\ \E nA \in 0..MaxRows : \E nB \in 0..(MaxRows - nA) :
       \E nC \in 0..(MaxRows - nA - nB) :
       \E rA \in [1..nA -> rows_of("A")] : \E rB \in [1..nB -> rows_of("B")] :
       \E rC \in [1..nC -> rows_of("C")] :
           pan_dat = [A |-> DataFrame(all_fields("A"), rA),
                      B |-> DataFrame(all_fields("B"), rB),
                      C |-> DataFrame(all_fields("C"), rC),
                      G |-> empty_frame("G")]
    /\ pc = "idle"
    /\ remove_rows = <<>>
    /\ pan_dat_at_call = pan_dat
    /\ last_call = "PanDat"
    /\ raised = FALSE
    /\ rtn = <<>>

(***************************************************************************)
(* Every find function and remove_foreign_key_failures start with          *)
(* verify(self.good_pan_dat_object(pan_dat, msg.append), ...), the one     *)
(* place where they could touch the factory; they build no PanDat.         *)
(***************************************************************************)
\* _has_been_used as copy_pan_dat leaves it: self.PanDat(...) seals
has_been_used_after_copy_pan_dat(used) == TRUE

\* _has_been_used once good_pan_dat_object has returned: it reads self only
has_been_used_after_good_pan_dat_object(used) == used

\* remove_foreign_key_failures, up to the first test of the while loop
RemoveCall ==
    /\ pc = "idle"
    /\ pc' = "remove_loop"
    /\ remove_rows' = find_foreign_key_failure_rows(foreign_keys, pan_dat,
                                                    nan_tuples_join)
    /\ pan_dat' = pan_dat_after_find_fk(foreign_keys, pan_dat)
    /\ pan_dat_at_call' = pan_dat
    /\ last_call' = "remove_foreign_key_failures"
    /\ raised' = FALSE
    /\ rtn' = <<>>
    /\ has_been_used' = has_been_used_after_good_pan_dat_object(has_been_used)
    /\ UNCHANGED <<schema_vars, build_vars>>

\* one iteration of the while loop: fk = next(iter(remove_rows)), whose place in
\* the dict follows the iteration order of a set, so any key may come first
RemoveIterate ==
    /\ pc = "remove_loop"
    /\ DOMAIN remove_rows # {}
    /\ \E fk \in DOMAIN remove_rows :
        LET body == remove_loop_body(foreign_keys, pan_dat, remove_rows, fk,
                                     nan_tuples_join)
        IN  /\ pan_dat' = body.pan_dat
            /\ remove_rows' = body.remove_rows
    /\ has_been_used' = has_been_used_after_good_pan_dat_object(has_been_used)
    /\ UNCHANGED <<schema_vars, build_vars, pc,
                   pan_dat_at_call, last_call, raised, rtn>>

\* the while loop ends: return pan_dat
RemoveReturn ==
    /\ pc = "remove_loop"
    /\ DOMAIN remove_rows = {}
    /\ pc' = "idle"
    /\ rtn' = pan_dat
    /\ UNCHANGED <<has_been_used, schema_vars, build_vars, pan_dat,
                   remove_rows, pan_dat_at_call, last_call, raised>>

\* find_foreign_key_failures(pan_dat, as_table=False)
FindForeignKeyFailures ==
    /\ pc = "idle"
    /\ rtn' = find_foreign_key_failure_rows(foreign_keys, pan_dat, nan_tuples_join)
    /\ pan_dat' = pan_dat_after_find_fk(foreign_keys, pan_dat)
    /\ pan_dat_at_call' = pan_dat
    /\ last_call' = "find_foreign_key_failures"
    /\ raised' = FALSE
    /\ has_been_used' = has_been_used_after_good_pan_dat_object(has_been_used)
    /\ UNCHANGED <<schema_vars, build_vars, pc, remove_rows>>

\* find_duplicates(pan_dat, keep, as_table=False)
keep_args == {"first", "last", "False"}

find_duplicates_call(keep) ==
    /\ pc = "idle"
    /\ rtn' = find_duplicates(pan_dat, keep)
    /\ last_call' = "find_duplicates"
    /\ pan_dat' = pan_dat_after_find_duplicates(pan_dat)
    /\ pan_dat_at_call' = pan_dat
    /\ raised' = FALSE
    /\ has_been_used' = has_been_used_after_good_pan_dat_object(has_been_used)
    /\ UNCHANGED <<schema_vars, build_vars, pc, remove_rows>>

FindDuplicates == \E keep \in keep_args : find_duplicates_call(keep)

\* find_data_type_failures(pan_dat, as_table=False)
FindDataTypeFailures ==
    /\ pc = "idle"
    /\ rtn' = find_data_type_failures(data_types, pan_dat)
    /\ pan_dat' = pan_dat_after_find_data_type_failures(pan_dat)
    /\ pan_dat_at_call' = pan_dat
    /\ last_call' = "find_data_type_failures"
    /\ raised' = FALSE
    /\ has_been_used' = has_been_used_after_good_pan_dat_object(has_been_used)
    /\ UNCHANGED <<schema_vars, build_vars, pc, remove_rows>>

\* find_data_row_failures(pan_dat, as_table=False)
FindDataRowFailures ==
    /\ pc = "idle"
    /\ IF any_is_ambiguous(data_row_predicates, pan_dat)
       THEN raised' = TRUE /\ rtn' = <<>>
       ELSE /\ raised' = FALSE
            /\ rtn' = find_data_row_failures(data_row_predicates, pan_dat)
    /\ pan_dat' = pan_dat_after_find_data_row_failures(pan_dat)
    /\ pan_dat_at_call' = pan_dat
    /\ last_call' = "find_data_row_failures"
    /\ has_been_used' = has_been_used_after_good_pan_dat_object(has_been_used)
    /\ UNCHANGED <<schema_vars, build_vars, pc, remove_rows>>

NextData ==
    \/ RemoveCall
    \/ RemoveIterate
    \/ RemoveReturn
    \/ FindForeignKeyFailures
    \/ FindDuplicates
    \/ FindDataTypeFailures
    \/ FindDataRowFailures

SpecData == InitData /\ [][NextData]_vars

(***************************************************************************)
(* Properties of SpecData.                                                 *)
(***************************************************************************)
returned_from(call) == pc = "idle" /\ last_call = call /\ ~raised

total_rows(dat) == Len(dat["A"].rows) + Len(dat["B"].rows) + Len(dat["C"].rows)
                       + Len(dat["G"].rows)

\* is s what is left of t when some of its entries are dropped?
RECURSIVE is_subsequence(_, _)
is_subsequence(s, t) ==
    IF s = <<>> THEN TRUE
    ELSE IF t = <<>> THEN FALSE
    ELSE IF Head(s) = Head(t) THEN is_subsequence(Tail(s), Tail(t))
    ELSE is_subsequence(s, Tail(t))

\* is the native row at position i a failure of fk in dat, as the code finds it?
fails(fk, dat, i) == failure_mask(fk, dat, nan_tuples_join)[i]

no_failure(dat) ==
    \A fk \in foreign_keys : \A i \in 1..Len(dat[fk.native_table].rows) :
        ~fails(fk, dat, i)

\* has the foreign table a row whose foreign-side mapped values equal the
\* native-side mapped values of the native row at i, pair by pair?
has_matching_foreign_row(fk, dat, i) ==
    \E j \in 1..Len(dat[fk.foreign_table].rows) :
        \A k \in 1..Len(fk.mappings) :
            dat[fk.foreign_table].rows[j][fk.mappings[k][2]]
                = dat[fk.native_table].rows[i][fk.mappings[k][1]]

holds_null(row, fields) == \E k \in 1..Len(fields) : row[fields[k]] = NULL

\* is the native row at i reported by the find_foreign_key_failures that has
\* just returned rtn?
reported(fk, i) == fk \in DOMAIN rtn /\ rtn[fk][i]

\* C1: when remove_foreign_key_failures has returned, no native row of any
\* foreign key of the schema is a failure in the resulting data, whichever keys
\* the loop picked.
C1_NoFailureAfterRemoval ==
    returned_from("remove_foreign_key_failures") => no_failure(pan_dat)

\* a removal that took rows away has returned, and rows are left
C1_Witness ==
    /\ returned_from("remove_foreign_key_failures")
    /\ ~no_failure(pan_dat_at_call)
    /\ \E fk \in foreign_keys : pan_dat[fk.native_table].rows # <<>>

\* C2: find_foreign_key_failures reports a native row iff the foreign table has
\* no row whose foreign-side mapped values equal the row's native-side mapped
\* values for every pair of the mapping (stated for the native rows that hold
\* no null in a mapped field; null is the subject of C9).
C2_FailureIffNoMatchingForeignRow ==
    returned_from("find_foreign_key_failures") =>
        \A fk \in foreign_keys : \A i \in 1..Len(pan_dat[fk.native_table].rows) :
            ~holds_null(pan_dat[fk.native_table].rows[i], native_fields(fk.mappings))
                => (reported(fk, i) <=> ~has_matching_foreign_row(fk, pan_dat, i))

\* C5: each iteration of the loop of remove_foreign_key_failures changes one
\* table only, the native table of a foreign key that had failures, takes at
\* least one row from it and adds none, so that the total row count strictly
\* decreases; and inside the loop the call can always go on or return.
C5_EachIterationRemovesRows ==
    /\ [][(pc = "remove_loop" /\ pc' = "remove_loop") =>
            \E fk \in DOMAIN remove_rows :
                /\ \A t \in all_tables \ {fk.native_table} : pan_dat'[t] = pan_dat[t]
                /\ Len(pan_dat'[fk.native_table].rows)
                       < Len(pan_dat[fk.native_table].rows)
                /\ is_subsequence(pan_dat'[fk.native_table].rows,
                                  pan_dat[fk.native_table].rows)
                /\ total_rows(pan_dat') < total_rows(pan_dat)]_vars
    /\ [](pc = "remove_loop" => ENABLED (RemoveIterate \/ RemoveReturn))

\* the loop is in its second iteration at least, and has failures left to remove
C5_Witness ==
    /\ pc = "remove_loop"
    /\ total_rows(pan_dat) < total_rows(pan_dat_at_call)
    /\ DOMAIN remove_rows # {}

\* the removal of the failures of one key after the other, in one fixed order
RECURSIVE remove_in_fixed_order(_, _, _)
remove_in_fixed_order(fks, dat, nj) ==
    LET rr == find_foreign_key_failure_rows(fks, dat, nj)
    IN  IF DOMAIN rr = {} THEN dat
        ELSE LET fk == CHOOSE f \in DOMAIN rr : TRUE
             IN  remove_in_fixed_order(fks, remove_failures_of(dat, fk, rr[fk]), nj)

\* C6: the data remove_foreign_key_failures returns does not depend on the key
\* picked at each iteration: every order of choices ends in the rows that one
\* fixed order ends in.
C6_ResultIndependentOfOrder ==
    returned_from("remove_foreign_key_failures") =>
        pan_dat = remove_in_fixed_order(foreign_keys, pan_dat_at_call,
                                        nan_tuples_join)

\* a removal has returned that had the choice between two keys at its start
C6_Witness ==
    /\ returned_from("remove_foreign_key_failures")
    /\ Cardinality(DOMAIN find_foreign_key_failure_rows(
                       foreign_keys, pan_dat_at_call, nan_tuples_join)) >= 2

\* C7: remove_foreign_key_failures only deletes rows: during and after the call
\* every table holds the columns it held at the call and a sub-sequence of the
\* rows it held, in the same order and with the same values.
C7_OnlyDeletesRows ==
    last_call = "remove_foreign_key_failures" =>
        \A t \in all_tables :
            /\ pan_dat[t].columns = pan_dat_at_call[t].columns
            /\ is_subsequence(pan_dat[t].rows, pan_dat_at_call[t].rows)

\* a removal has returned that dropped one row of a table and kept another
C7_Witness ==
    /\ returned_from("remove_foreign_key_failures")
    /\ \E t \in all_tables :
        /\ pan_dat[t].rows # <<>>
        /\ Len(pan_dat[t].rows) < Len(pan_dat_at_call[t].rows)

\* C8: remove_foreign_key_failures on data without foreign key failure leaves
\* every table unchanged; so a second call in a row changes nothing.
C8_NoOpOnCleanData ==
    (returned_from("remove_foreign_key_failures") /\ no_failure(pan_dat_at_call))
        => pan_dat = pan_dat_at_call

\* a removal has returned that was called on clean data whose native rows all
\* find their parent, the foreign table holding the same key twice
C8_Witness ==
    /\ returned_from("remove_foreign_key_failures")
    /\ no_failure(pan_dat_at_call)
    /\ \E fk \in foreign_keys :
        /\ Len(pan_dat[fk.native_table].rows) = 2
        /\ Len(pan_dat[fk.foreign_table].rows) = 2
        /\ key_of(pan_dat[fk.foreign_table].rows[1], foreign_fields(fk.mappings))
             = key_of(pan_dat[fk.foreign_table].rows[2], foreign_fields(fk.mappings))

Init ==
    /\ has_been_used = FALSE
    /\ data_types = <<>>
    /\ default_values = initial_default_values
    /\ data_row_predicates = <<>>
    /\ foreign_keys = {}
    /\ pan_dat = <<>>
    /\ pc = "idle"
    /\ remove_rows = <<>>
    /\ pan_dat_at_call = <<>>
    /\ last_call = "PanDatFactory"
    /\ raised = FALSE
    /\ rtn = <<>>
    /\ nan_tuples_join = FALSE
    /\ dict_keeps_order \in BOOLEAN

\* what a call leaves alone besides the schema and the flag
caller_unchanged == UNCHANGED <<pc, remove_rows, pan_dat_at_call, rtn, build_vars>>

\* the call `call` has raised before it assigned anything
Raises(call) ==
    /\ last_call' = call
    /\ raised' = TRUE
    /\ UNCHANGED <<has_been_used, schema_vars, pan_dat>>
    /\ caller_unchanged

\* the call `call` has returned
Returns(call) ==
    /\ last_call' = call
    /\ raised' = FALSE
    /\ caller_unchanged

\* field in self.data_fields[table] + self.primary_key_fields[table]; the
\* lookup itself raises for a generic table
is_field_of(table, field) ==
    /\ table \notin generic_tables
    /\ field \in Range(data_fields[table]) \cup Range(primary_key_fields[table])

\* f with the entry of k set to v
with_entry(f, k, v) == [x \in (DOMAIN f) \cup {k} |-> IF x = k THEN v ELSE f[x]]
\* f without the entries of the keys in K
without_entries(f, K) == [x \in (DOMAIN f) \ K |-> f[x]]

\* the arguments of set_data_type after table and field
\* the TypeDictionary set_data_type stores for the arguments a
stored_data_type(a) ==
    IF a.number_allowed
    THEN TypeDictionary(TRUE, a.inclusive_min, a.inclusive_max, a.min, a.max,
                        a.must_be_int, a.strings_allowed, a.nullable)
    ELSE TypeDictionary(FALSE, TRUE, TRUE, Fin(0), Inf, FALSE,
                        a.strings_allowed, a.nullable)

\* set_data_type_accepts without its first verify
set_data_type_accepts_when_used(table, field, a) ==
    /\ table \in all_tables
    /\ table \notin generic_tables
    /\ is_field_of(table, field)
    /\ a.number_allowed =>
           numericish(a.max) /\ numericish(a.min) /\ bound_geq(a.max, a.min)

\* set_data_type_accepts without the verifies of max and min
set_data_type_accepts_any_bounds(table, field, a) ==
    /\ ~has_been_used
    /\ table \in all_tables
    /\ table \notin generic_tables
    /\ is_field_of(table, field)

\* the verify calls of set_data_type, in their order
set_data_type_accepts(table, field, a) ==
    /\ ~has_been_used
    /\ table \in all_tables
    /\ table \notin generic_tables
    /\ is_field_of(table, field)
    /\ a.number_allowed =>
           numericish(a.max) /\ numericish(a.min) /\ bound_geq(a.max, a.min)

SetDataType(table, field, a) ==
    IF set_data_type_accepts(table, field, a)
    THEN /\ data_types' = with_entry(data_types, <<table, field>>, stored_data_type(a))
         /\ UNCHANGED <<has_been_used, default_values, data_row_predicates,
                        foreign_keys, pan_dat>>
         /\ Returns("set_data_type")
    ELSE Raises("set_data_type")

\* the early return of clear_data_type comes before its verify
ClearDataType(table, field) ==
    IF <<table, field>> \notin DOMAIN data_types
    THEN /\ UNCHANGED <<has_been_used, schema_vars, pan_dat>>
         /\ Returns("clear_data_type")
    ELSE IF ~has_been_used
    THEN /\ data_types' = without_entries(data_types, {<<table, field>>})
         /\ UNCHANGED <<has_been_used, default_values, data_row_predicates,
                        foreign_keys, pan_dat>>
         /\ Returns("clear_data_type")
    ELSE Raises("clear_data_type")

\* a name taken from the number of predicates of the table
number_of_predicates_as_name(preds, table, i) ==
    ToString(Cardinality({tp \in DOMAIN preds : tp[1] = table}))

\* next(i for i in count() if i not in self._data_row_predicates[table])
RECURSIVE smallest_free_name(_, _, _)
smallest_free_name(preds, table, i) ==
    IF <<table, ToString(i)>> \notin DOMAIN preds THEN ToString(i)
    ELSE smallest_free_name(preds, table, i + 1)

\* predicate: "None", "not callable" or a predicate; predicate_name: "None" or a name
AddDataRowPredicate(table, predicate, predicate_name) ==
    IF has_been_used \/ table \notin all_tables
    THEN Raises("add_data_row_predicate")
    ELSE IF predicate = "None"
    THEN /\ data_row_predicates' =
                without_entries(data_row_predicates, {<<table, predicate_name>>})
         /\ UNCHANGED <<has_been_used, data_types, default_values, foreign_keys, pan_dat>>
         /\ Returns("add_data_row_predicate")
    ELSE IF predicate = "not callable"
    THEN Raises("add_data_row_predicate")
    ELSE LET name == IF predicate_name = "None"
                     THEN smallest_free_name(data_row_predicates, table, 0)
                     ELSE predicate_name
         IN  /\ data_row_predicates' =
                    with_entry(data_row_predicates, <<table, name>>, predicate)
             /\ UNCHANGED <<has_been_used, data_types, default_values,
                            foreign_keys, pan_dat>>
             /\ Returns("add_data_row_predicate")

\* utils.acceptable_default: a number, a string, a boolean or None
acceptable_default(v) == v.kind \in {"number", "string", "null"}
NotAScalar == [kind |-> "list", num |-> 0, tenths |-> 0, str |-> ""]

SetDefaultValue(table, field, default_value) ==
    IF /\ ~has_been_used
       /\ table \in all_tables
       /\ is_field_of(table, field)
       /\ acceptable_default(default_value)
    THEN /\ default_values' = with_entry(default_values, <<table, field>>, default_value)
         /\ UNCHANGED <<has_been_used, data_types, data_row_predicates,
                        foreign_keys, pan_dat>>
         /\ Returns("set_default_value")
    ELSE Raises("set_default_value")

\* the for loop of set_default_values over tableDefaults, a sequence of
\* <<table, field, value>> (one field per table): the tables before the first
\* one refused have been assigned when it raises
RECURSIVE set_default_values_loop(_, _, _)
set_default_values_loop(dvs, tableDefaults, i) ==
    IF i > Len(tableDefaults) THEN [default_values |-> dvs, raised |-> FALSE]
    ELSE LET k == tableDefaults[i][1]
             f == tableDefaults[i][2]
             v == tableDefaults[i][3]
         IN  IF k \in all_tables /\ is_field_of(k, f) /\ acceptable_default(v)
             THEN set_default_values_loop(with_entry(dvs, <<k, f>>, v),
                                          tableDefaults, i + 1)
             ELSE [default_values |-> dvs, raised |-> TRUE]

SetDefaultValues(tableDefaults) ==
    IF has_been_used THEN Raises("set_default_values")
    ELSE LET r == set_default_values_loop(default_values, tableDefaults, 1)
         IN  /\ default_values' = r.default_values
             /\ last_call' = "set_default_values"
             /\ raised' = r.raised
             /\ UNCHANGED <<has_been_used, data_types, data_row_predicates,
                            foreign_keys, pan_dat>>
             /\ caller_unchanged

\* clear_foreign_keys that forgets its argument once it is verified
clear_every_foreign_key(native_table) ==
    IF has_been_used \/ ~(native_table = "None" \/ native_table \in all_tables)
    THEN Raises("clear_foreign_keys")
    ELSE /\ foreign_keys' = {}
         /\ UNCHANGED <<has_been_used, data_types, default_values,
                        data_row_predicates, pan_dat>>
         /\ Returns("clear_foreign_keys")

\* native_table: "None" or a table name
ClearForeignKeys(native_table) ==
    IF has_been_used \/ ~(native_table = "None" \/ native_table \in all_tables)
    THEN Raises("clear_foreign_keys")
    ELSE /\ foreign_keys' =
                {fk \in foreign_keys :
                    ~(native_table = "None" \/ fk.native_table = native_table)}
         /\ UNCHANGED <<has_been_used, data_types, default_values,
                        data_row_predicates, pan_dat>>
         /\ Returns("clear_foreign_keys")

\* _mappings = {k:v for k,v in mappings}, then tuple(_mappings.items()): a
\* native field keeps the place of its first pair and the value of its last
RECURSIVE items_in_insertion_order(_)
items_in_insertion_order(mappings) ==
    IF mappings = <<>> THEN <<>>
    ELSE LET n == Len(mappings)
             front == items_in_insertion_order(SubSeq(mappings, 1, n - 1))
             k == mappings[n][1]
         IN  IF \E i \in 1..Len(front) : front[i][1] = k
             THEN [i \in 1..Len(front) |->
                      IF front[i][1] = k THEN mappings[n] ELSE front[i]]
             ELSE Append(front, mappings[n])

\* the place of a key in the hash table of a dict that iterates in hash order
hash_rank(k) == CASE k = "a" -> 1 [] k = "b" -> 2 [] k = "c" -> 3 [] OTHER -> 4

\* the items of a dict in the order of the hashes of their keys
items_in_hash_order(items) ==
    LET keys == {items[i][1] : i \in 1..Len(items)}
        place(k) == Cardinality({j \in keys : hash_rank(j) < hash_rank(k)}) + 1
        at(q) == CHOOSE i \in 1..Len(items) : place(items[i][1]) = q
    IN  [q \in 1..Len(items) |-> items[at(q)]]

\* _mappings.items(): in insertion order where the build keeps it, in hash
\* order elsewhere
dict_items(mappings) ==
    IF dict_keeps_order THEN items_in_insertion_order(mappings)
    ELSE items_in_hash_order(items_in_insertion_order(mappings))

\* add_foreign_key refusing the tables that have no primary key field
add_foreign_key_accepts_primary_keys_only(native_table, foreign_table, mappings) ==
    /\ ~has_been_used
    /\ \A t \in {native_table, foreign_table} :
           t \in all_tables /\ t \notin generic_tables /\ primary_key_fields[t] # <<>>
    /\ mappings # <<>>
    /\ \A i \in 1..Len(mappings) : Len(mappings[i]) = 2
    /\ \A i \in 1..Len(mappings) :
           /\ mappings[i][1] \in Range(all_fields(native_table))
           /\ mappings[i][2] \in Range(all_fields(foreign_table))

\* mappings: a sequence of pairs (a simple mapping [nf, ff] is given as one pair)
add_foreign_key_accepts(native_table, foreign_table, mappings) ==
    /\ ~has_been_used
    /\ \A t \in {native_table, foreign_table} :
           t \in all_tables /\ t \notin generic_tables
    /\ mappings # <<>>
    /\ \A i \in 1..Len(mappings) : Len(mappings[i]) = 2
    /\ LET items == dict_items(mappings)
       IN  \A i \in 1..Len(items) :
               /\ items[i][1] \in Range(all_fields(native_table))
               /\ items[i][2] \in Range(all_fields(foreign_table))

AddForeignKey(native_table, foreign_table, mappings) ==
    IF add_foreign_key_accepts(native_table, foreign_table, mappings)
    THEN /\ foreign_keys' =
                foreign_keys \cup {FK(native_table, foreign_table, dict_items(mappings))}
         /\ UNCHANGED <<has_been_used, data_types, default_values,
                        data_row_predicates, pan_dat>>
         /\ Returns("add_foreign_key")
    ELSE Raises("add_foreign_key")

(***************************************************************************)
(* PanDat.__init__.  init_tables is the sequence of <<table, value>>        *)
(* in keyword order; a value is what DataFrame(value) makes of it: a frame, *)
(* or nothing (is_frame FALSE) when the value is not table-like.  A frame   *)
(* made without column names has the labels 0, 1, ..., written "0", "1".    *)
(***************************************************************************)
TableLike(cols, rws) == [is_frame |-> TRUE, columns |-> cols, rows |-> rws]
NotTableLike == [is_frame |-> FALSE, columns |-> <<>>, rows |-> <<>>]

\* list(df.columns) == list(range(len(df.columns)))
has_range_columns(cols) == cols = [i \in 1..Len(cols) |-> ToString(i - 1)]

\* df.rename(columns={f1: f2 for f1, f2 in zip(df.columns, all_fields)})
rename_columns(df, fields) ==
    LET new_name(i) == IF i <= Len(fields) THEN fields[i] ELSE df.columns[i]
        position(c) == CHOOSE i \in 1..Len(df.columns) : new_name(i) = c
        cols == [i \in 1..Len(df.columns) |-> new_name(i)]
    IN  DataFrame(cols,
                  [r \in 1..Len(df.rows) |->
                      [c \in Range(cols) |-> df.rows[r][df.columns[position(c)]]]])

\* the frame setattr(self, t, ...) stores for a supplied table in the first loop
supplied_frame(t, value) ==
    LET df == DataFrame(value.columns, value.rows)
    IN  IF has_range_columns(df.columns) /\ Len(df.columns) >= Len(all_fields(t))
        THEN rename_columns(df, all_fields(t))
        ELSE df

\* the sequence s without the entries in S
RECURSIVE seq_without(_, _)
seq_without(s, S) ==
    IF s = <<>> THEN <<>>
    ELSE IF Head(s) \in S THEN seq_without(Tail(s), S)
    ELSE <<Head(s)>> \o seq_without(Tail(s), S)

\* __init__ without its last loop
normalize_columns_as_supplied(t, df) == df

\* the last loop of __init__: df[af + extra_cols] when the columns do not start
\* with the declared fields in their order
normalize_columns(t, df) ==
    LET af == all_fields(t)
    IN  IF Len(df.columns) >= Len(af) /\ SubSeq(df.columns, 1, Len(af)) = af
        THEN df
        ELSE DataFrame(af \o seq_without(df.columns, Range(af)), df.rows)

supplied_tables(init_tables) == {init_tables[i][1] : i \in 1..Len(init_tables)}
value_of(init_tables, t) ==
    init_tables[CHOOSE i \in 1..Len(init_tables) : init_tables[i][1] = t][2]

\* the attributes of self after the first two loops of __init__
frames_before_check(init_tables) ==
    [t \in all_tables |->
        IF t \in supplied_tables(init_tables)
        THEN supplied_frame(t, value_of(init_tables, t))
        ELSE empty_frame(t)]

\* __init__ without the verify of missing_fields
pan_dat_init_accepts_missing_fields(init_tables) ==
    \A i \in 1..Len(init_tables) :
        /\ init_tables[i][1] \in all_tables
        /\ init_tables[i][2].is_frame

\* do the verify calls of __init__ all pass?
pan_dat_init_accepts(init_tables) ==
    /\ \A i \in 1..Len(init_tables) :
           /\ init_tables[i][1] \in all_tables
           /\ init_tables[i][2].is_frame
    /\ \A t \in all_tables : \A f \in Range(all_fields(t)) :
           f \in Range(frames_before_check(init_tables)[t].columns)

\* the PanDat a successful __init__ leaves
constructed_pan_dat(init_tables) ==
    [t \in all_tables |-> normalize_columns(t, frames_before_check(init_tables)[t])]

\* _has_been_used once PanDat.__init__ has been entered: its first statement is
\* superself._trigger_has_been_used(), before any verify
has_been_used_after_init(accepted) == TRUE

ConstructPanDat(init_tables) ==
    /\ has_been_used' = has_been_used_after_init(pan_dat_init_accepts(init_tables))
    /\ last_call' = "PanDat"
    /\ IF pan_dat_init_accepts(init_tables)
       THEN /\ pan_dat' = constructed_pan_dat(init_tables)
            /\ raised' = FALSE
       ELSE /\ pan_dat' = pan_dat
            /\ raised' = TRUE
    /\ UNCHANGED schema_vars
    /\ caller_unchanged

(***************************************************************************)
(* The arguments the calls of Spec are drawn from.                         *)
(***************************************************************************)
table_args == {"A", "G", "X"}
field_args == {"a", "z"}
\* the arguments of set_data_type after table and field: the defaults; max
\* below min; no number allowed
data_type_args ==
    { TypeDictionary(TRUE, TRUE, FALSE, Fin(0), Inf, FALSE, Strings({}), FALSE),
      TypeDictionary(TRUE, TRUE, TRUE, Fin(2), Fin(1), FALSE, Strings({}), FALSE),
      TypeDictionary(FALSE, FALSE, FALSE, Fin(2), Fin(1), TRUE, Strings({"x"}), TRUE) }
predicate_table_args == {"A", "X"}
predicate_args == {"None", "not callable", "no_null"}
predicate_name_args == {"None", "p"}
default_value_args == {Num(1), NotAScalar}
tableDefaults_args ==
    { <<>>,
      << <<"A", "b", Num(1)>> >>,
      << <<"A", "b", Num(0)>>, <<"X", "a", Num(1)>> >> }
native_table_args == {"None", "A", "X"}
add_foreign_key_args ==
    { <<"A", "B", << <<"b", "a">> >> >>,
      <<"B", "A", << <<"b", "a">> >> >>,
      <<"A", "B", << <<"a", "b">>, <<"b", "a">> >> >>,
      <<"A", "G", << <<"b", "a">> >> >>,
      <<"A", "X", << <<"b", "a">> >> >>,
      <<"A", "B", <<>> >>,
      <<"A", "B", << <<"b">> >> >>,
      <<"A", "B", << <<"b", "z">> >> >> }
init_tables_args ==
    { <<>>,
      << <<"A", TableLike(<<"b", "a">>, << [b |-> Num(1), a |-> Num(2)] >>)>> >>,
      << <<"A", TableLike(<<"0", "1">>, << [c \in {"0", "1"} |-> Num(1)] >>)>> >>,
      << <<"X", TableLike(<<"a", "b">>, <<>>)>> >>,
      << <<"A", NotTableLike>> >>,
      << <<"A", TableLike(<<"a">>, <<>>)>> >> }

\* the predicates one table may hold in Spec
MaxPredicates == 2

predicates_of(table) == {tp \in DOMAIN data_row_predicates : tp[1] = table}

Next ==
    \/ \E t \in table_args, f \in field_args, a \in data_type_args :
           SetDataType(t, f, a)
    \/ \E t \in table_args, f \in field_args : ClearDataType(t, f)
    \/ \E t \in predicate_table_args, p \in predicate_args,
          n \in predicate_name_args :
           /\ p = "no_null" => Cardinality(predicates_of(t)) < MaxPredicates
           /\ AddDataRowPredicate(t, p, n)
    \/ \E t \in table_args, f \in field_args, v \in default_value_args :
           SetDefaultValue(t, f, v)
    \/ \E d \in tableDefaults_args : SetDefaultValues(d)
    \/ \E nt \in native_table_args : ClearForeignKeys(nt)
    \/ \E k \in add_foreign_key_args : AddForeignKey(k[1], k[2], k[3])
    \/ \E i \in init_tables_args : ConstructPanDat(i)

Spec == Init /\ [][Next]_vars

(***************************************************************************)
(* Properties of SpecData, continued.                                      *)
(***************************************************************************)
find_calls == {"find_duplicates", "find_data_type_failures",
               "find_data_row_failures", "find_foreign_key_failures"}

\* C10: find_duplicates, find_data_type_failures, find_data_row_failures and
\* find_foreign_key_failures leave every table of the PanDat as it was at the
\* call; and find_foreign_key_failures called again on the PanDat it has left
\* returns what it has just returned.
C10_FindsLeaveDataUnchanged ==
    /\ last_call \in find_calls => pan_dat = pan_dat_at_call
    /\ returned_from("find_foreign_key_failures") =>
           rtn = find_foreign_key_failure_rows(foreign_keys, pan_dat,
                                               nan_tuples_join)

\* find_foreign_key_failures has returned failures, read from a foreign table
\* that holds the same key twice
C10_Witness ==
    /\ returned_from("find_foreign_key_failures")
    /\ \E fk \in DOMAIN rtn :
        /\ Len(pan_dat[fk.foreign_table].rows) = 2
        /\ key_of(pan_dat[fk.foreign_table].rows[1], foreign_fields(fk.mappings))
             = key_of(pan_dat[fk.foreign_table].rows[2], foreign_fields(fk.mappings))

(***************************************************************************)
(* Properties of Spec.                                                     *)
(***************************************************************************)
mutator_calls == {"set_data_type", "clear_data_type", "set_default_value",
                  "set_default_values", "add_foreign_key", "clear_foreign_keys",
                  "add_data_row_predicate"}

C4_FailedConstructionKeepsBuilding ==
    [][(~has_been_used /\ last_call' = "PanDat" /\ raised') => ~has_been_used']_vars

(***************************************************************************)
(* The foreign_keys property: one ForeignKey descriptor for each mapping   *)
(* tuple stored in _foreign_keys, with its cardinality.                    *)
(***************************************************************************)
\* set.issuperset
issuperset(S, T) == T \subseteq S

\* half_card with the emptiness test of pkfs left out
half_card_superset_only(tbl, fields) ==
    IF issuperset(fields, Range(primary_key_fields[tbl])) THEN "one" ELSE "many"

\* half_card(tbl, fields): pkfs and fields.issuperset(pkfs)
half_card(tbl, fields) ==
    LET pkfs == primary_key_fields[tbl]
    IN  IF pkfs # <<>> /\ issuperset(fields, Range(pkfs)) THEN "one" ELSE "many"

\* "%s-to-%s" of the two half cardinalities
cardinality(fk) ==
    [native |-> half_card(fk.native_table, Range(native_fields(fk.mappings))),
     foreign |-> half_card(fk.foreign_table, Range(foreign_fields(fk.mappings)))]

ForeignKey(native, foreign, mappings, card) ==
    [native_table |-> native, foreign_table |-> foreign, mappings |-> mappings,
     cardinality |-> card]

\* what the property foreign_keys returns, as a set
foreign_keys_property ==
    {ForeignKey(fk.native_table, fk.foreign_table, fk.mappings, cardinality(fk)) :
        fk \in foreign_keys}

(***************************************************************************)
(* SpecForeignKeys: a PanDatFactory under add_foreign_key and              *)
(* clear_foreign_keys, with more mappings than Spec explores: tables       *)
(* without primary key, one set of pairs in two orders, pairs that share   *)
(* their native field.                                                     *)
(***************************************************************************)
more_add_foreign_key_args ==
    { <<"C", "A", << <<"c", "a">> >> >>,
      <<"A", "C", << <<"b", "c">> >> >>,
      <<"A", "B", << <<"b", "a">>, <<"a", "b">> >> >>,
      <<"A", "B", << <<"a", "a">>, <<"b", "b">> >> >>,
      <<"B", "A", << <<"a", "a">>, <<"a", "b">> >> >>,
      <<"A", "B", << <<"a", "z">>, <<"a", "a">> >> >>,
      <<"A", "B", << <<"z", "a">> >> >>,
      <<"G", "A", << <<"a", "a">> >> >>,
      <<"X", "A", << <<"a", "a">> >> >>,
      <<"A", "B", << <<"a", "a", "b">> >> >> }

foreign_key_args == add_foreign_key_args \cup more_add_foreign_key_args

NextForeignKeys ==
    \/ \E k \in foreign_key_args : AddForeignKey(k[1], k[2], k[3])
    \/ \E nt \in native_table_args : ClearForeignKeys(nt)
    \/ \E i \in init_tables_args : ConstructPanDat(i)

SpecForeignKeys == Init /\ [][NextForeignKeys]_vars

\* the set of pairs of a mapping
pair_set(mappings) == Range(mappings)

has_one_to_one == \E d \in foreign_keys_property :
                      d.cardinality = [native |-> "one", foreign |-> "one"]

\* C11 as claimed: each side of the cardinality of a registered foreign key is
\* "one" iff the mapped fields of that side are a superset of the primary key
\* fields of its table, and "many" otherwise.
C11_OneIffSupersetOfPrimaryKey ==
    \A d \in foreign_keys_property :
        /\ d.cardinality.native \in {"one", "many"}
        /\ d.cardinality.foreign \in {"one", "many"}
        /\ d.cardinality.native = "one" <=>
               issuperset(Range(native_fields(d.mappings)),
                          Range(primary_key_fields[d.native_table]))
        /\ d.cardinality.foreign = "one" <=>
               issuperset(Range(foreign_fields(d.mappings)),
                          Range(primary_key_fields[d.foreign_table]))

\* C11 as amended: a side is "one" iff its table has at least one primary key
\* field and the mapped fields of the side are a superset of the primary key
\* fields; a side whose table has no primary key is "many".
C11_OneIffSupersetOfNonEmptyPrimaryKey ==
    \A d \in foreign_keys_property :
        /\ d.cardinality.native \in {"one", "many"}
        /\ d.cardinality.foreign \in {"one", "many"}
        /\ d.cardinality.native = "one" <=>
               /\ primary_key_fields[d.native_table] # <<>>
               /\ issuperset(Range(native_fields(d.mappings)),
                          Range(primary_key_fields[d.native_table]))
        /\ d.cardinality.foreign = "one" <=>
               /\ primary_key_fields[d.foreign_table] # <<>>
               /\ issuperset(Range(foreign_fields(d.mappings)),
                          Range(primary_key_fields[d.foreign_table]))

\* the schema holds a one-to-one key, a many-to-one key, and a key whose foreign
\* table has no primary key
C11_Witness ==
    /\ has_one_to_one
    /\ \E d \in foreign_keys_property :
           d.cardinality = [native |-> "many", foreign |-> "one"]
    /\ \E d \in foreign_keys_property :
           primary_key_fields[d.foreign_table] = <<>>

\* is t a declared table without primary key field?
without_primary_key(t) == t \in DOMAIN primary_key_fields /\ primary_key_fields[t] = <<>>

\* are the arguments k of add_foreign_key two declared, non-generic tables and a
\* non-empty sequence of pairs of fields of the native and of the foreign table?
well_formed(k) ==
    /\ \A t \in {k[1], k[2]} : t \in all_tables /\ t \notin generic_tables
    /\ k[3] # <<>>
    /\ \A i \in 1..Len(k[3]) :
           /\ Len(k[3][i]) = 2
           /\ k[3][i][1] \in Range(all_fields(k[1]))
           /\ k[3][i][2] \in Range(all_fields(k[2]))

\* holds the schema a foreign key between the tables of k whose pairs are the
\* pairs of k, as a set?
registered(fks, k) ==
    \E fk \in fks : /\ fk.native_table = k[1]
                    /\ fk.foreign_table = k[2]
                    /\ pair_set(fk.mappings) = pair_set(k[3])

\* C12 as claimed: no registered foreign key has a table without primary key
\* fields as its native or as its foreign table.
C12_NoEndpointWithoutPrimaryKey ==
    \A fk \in foreign_keys :
        ~without_primary_key(fk.native_table) /\ ~without_primary_key(fk.foreign_table)

\* C12 as amended: before the first PanDat, add_foreign_key with well-formed
\* arguments whose native or foreign table has no primary key fields returns
\* without error and registers the foreign key.
C12_EndpointWithoutPrimaryKeyAccepted ==
    [][\A k \in foreign_key_args :
           (/\ AddForeignKey(k[1], k[2], k[3])
            /\ ~has_been_used
            /\ well_formed(k)
            /\ without_primary_key(k[1]) \/ without_primary_key(k[2]))
               => (~raised' /\ registered(foreign_keys', k))]_vars

\* add_foreign_key has returned, and the schema holds a key whose native table
\* and a key whose foreign table has no primary key
C12_Witness ==
    /\ last_call = "add_foreign_key" /\ ~raised
    /\ \E fk \in foreign_keys : without_primary_key(fk.native_table)
    /\ \E fk \in foreign_keys : without_primary_key(fk.foreign_table)

\* C13: add_foreign_key raises and leaves the registered foreign keys unchanged
\* when a table is undeclared or generic, when the mapping is empty, when a pair
\* has not exactly two elements, when the native field of a supplied pair is no
\* field of the native table, or the foreign field of a supplied pair is no
\* field of the foreign table.
C13_IllFormedForeignKeyRefused ==
    [][\A k \in foreign_key_args :
           (AddForeignKey(k[1], k[2], k[3]) /\ ~well_formed(k))
               => (raised' /\ foreign_keys' = foreign_keys)]_vars

\* C14: after a successful add_foreign_key the schema holds a foreign key
\* between the two tables whose pairs are exactly the supplied pairs.
C14_SuppliedPairsRegistered ==
    [][\A k \in foreign_key_args :
           (AddForeignKey(k[1], k[2], k[3]) /\ ~raised')
               => registered(foreign_keys', k)]_vars

\* C15: the schema holds one descriptor at most for a native table, a foreign
\* table and a set of field pairs.
C15_OneDescriptorPerPairSet ==
    \A d1, d2 \in foreign_keys_property :
        (/\ d1.native_table = d2.native_table
         /\ d1.foreign_table = d2.foreign_table
         /\ pair_set(d1.mappings) = pair_set(d2.mappings)) => d1 = d2

(***************************************************************************)
(* SpecDataTypes: a PanDatFactory whose fields A.a and A.b are given type  *)
(* rules, then a PanDat holding rows of A, searched for the values the     *)
(* rules refuse.                                                           *)
(***************************************************************************)
typed_field_args == {"a", "b"}

type_rule_args ==
    { TypeDictionary(TRUE, TRUE, FALSE, Fin(0), Inf, FALSE, Strings({}), FALSE),
      TypeDictionary(TRUE, TRUE, FALSE, Fin(1), Fin(2), FALSE, Strings({}), FALSE),
      TypeDictionary(TRUE, FALSE, TRUE, Fin(1), Fin(2), TRUE, Strings({"x"}), TRUE),
      TypeDictionary(FALSE, TRUE, TRUE, Fin(0), Inf, FALSE, AnyString, FALSE),
      TypeDictionary(FALSE, FALSE, FALSE, Fin(2), Fin(1), TRUE, Strings({"x"}), TRUE),
      TypeDictionary(TRUE, TRUE, TRUE, Fin(2), Fin(1), FALSE, Strings({}), FALSE),
      TypeDictionary(TRUE, TRUE, TRUE, Fin(1), NotNumeric, FALSE, Strings({}), FALSE),
      TypeDictionary(TRUE, TRUE, TRUE, NotNumeric, Fin(1), FALSE, Strings({}), FALSE) }

\* the values the cells of A.b are drawn from in SpecDataTypes
TypedValues == {Num(0), Num(1), Dec(1, 5), Num(2), Num(3), Str("x"), Str("y"), NULL}

typed_init_tables_args ==
    { << <<"A", TableLike(<<"a", "b">>, << [a |-> Num(1), b |-> y] >>)>> >> :
          y \in TypedValues }
    \cup { << <<"A", TableLike(<<"a", "b">>, << [a |-> Num(1), b |-> Num(1)],
                                                [a |-> Num(2), b |-> y] >>)>> >> :
               y \in {Num(2), Str("x")} }

NextDataTypes ==
    \/ \E f \in typed_field_args, a \in type_rule_args : SetDataType("A", f, a)
    \/ \E f \in typed_field_args : ClearDataType("A", f)
    \/ \E i \in typed_init_tables_args : ConstructPanDat(i)
    \/ pan_dat # <<>> /\ FindDataTypeFailures

SpecDataTypes == Init /\ [][NextDataTypes]_vars

\* C16: every stored type rule that allows numbers has numeric bounds with
\* max >= min; and a set_data_type that allows numbers with max below min, or
\* with a bound that is no number, raises and leaves the stored rules, the rule
\* of its own table and field included, as they were.
C16_StoredBoundsOrdered ==
    /\ [](\A tf \in DOMAIN data_types :
              data_types[tf].number_allowed =>
                  /\ data_types[tf].max.numeric /\ data_types[tf].min.numeric
                  /\ bound_geq(data_types[tf].max, data_types[tf].min))
    /\ [][\A f \in typed_field_args, a \in type_rule_args :
              (/\ SetDataType("A", f, a)
               /\ a.number_allowed
               /\ ~(a.max.numeric /\ a.min.numeric /\ bound_geq(a.max, a.min)))
                  => (raised' /\ data_types' = data_types)]_vars

\* before the first PanDat, a set_data_type on a field of A has raised (for its
\* bounds: table and field are right) while A.a and A.b hold rules that allow
\* numbers
C16_Witness ==
    /\ ~has_been_used
    /\ last_call = "set_data_type" /\ raised
    /\ \A f \in typed_field_args :
           <<"A", f>> \in DOMAIN data_types /\ data_types[<<"A", f>>].number_allowed

\* ten times the number v, and ten times the finite bound b
tenfold(v) == 10 * v.num + v.tenths
tenfold_bound(b) == 10 * b.n

\* validity of a value under a type rule, in the words of C17
valid_as_claimed(rule, v) ==
    CASE v.kind = "null" -> rule.nullable
      [] v.kind = "number" ->
            /\ rule.number_allowed
            /\ rule.must_be_int => v.tenths = 0
            /\ ~rule.min.inf
            /\ IF rule.inclusive_min THEN tenfold(v) >= tenfold_bound(rule.min)
                                     ELSE tenfold(v) > tenfold_bound(rule.min)
            /\ \/ rule.max.inf
               \/ IF rule.inclusive_max THEN tenfold(v) <= tenfold_bound(rule.max)
                                        ELSE tenfold(v) < tenfold_bound(rule.max)
      [] v.kind = "string" ->
            rule.strings_allowed.any \/ v.str \in rule.strings_allowed.strings

typed_table_fields == {<<"A", f>> : f \in typed_field_args}

MaxDuplicateRows == 3

duplicate_rows_of(t) ==
    CASE t = "A" -> {[a |-> x, b |-> Num(1)] : x \in KeyValues}
      [] t = "B" -> {[a |-> x, b |-> y] : x \in {Num(1), Num(2)}, y \in {Num(1), Num(2)}}
      [] OTHER   -> {[c |-> Num(1)]}

InitDuplicates ==
    /\ has_been_used = TRUE
    /\ data_types = data_types_of_SpecData
    /\ default_values = initial_default_values
    /\ data_row_predicates = predicates_of_SpecData
    /\ foreign_keys = {}
    /\ nan_tuples_join = FALSE
    /\ dict_keeps_order = TRUE
    /\ \E nA \in 0..MaxDuplicateRows : \E nB \in 0..(MaxDuplicateRows - 1) :
       \E nC \in {0, MaxDuplicateRows - 1} :
       \E rA \in [1..nA -> duplicate_rows_of("A")] :
       \E rB \in [1..nB -> duplicate_rows_of("B")] :
       \E rC \in [1..nC -> duplicate_rows_of("C")] :
           pan_dat = [A |-> DataFrame(all_fields("A"), rA),
                      B |-> DataFrame(all_fields("B"), rB),
                      C |-> DataFrame(all_fields("C"), rC),
                      G |-> empty_frame("G")]
    /\ pc = "idle"
    /\ remove_rows = <<>>
    /\ pan_dat_at_call = pan_dat
    /\ last_call = "PanDat"
    /\ raised = FALSE
    /\ rtn = <<>>

NextDuplicates == FindDuplicates

SpecDuplicates == InitDuplicates /\ [][NextDuplicates]_vars

\* the positions of the rows of table t that share the primary key values of
\* the row at i
key_group(dat, t, i) ==
    {j \in 1..Len(dat[t].rows) :
        \A k \in 1..Len(primary_key_fields[t]) :
            dat[t].rows[j][primary_key_fields[t][k]]
                = dat[t].rows[i][primary_key_fields[t][k]]}

\* is the row at i of table t to be marked under keep, in the words of C18?
marked_as_claimed(dat, t, i, keep) ==
    LET g == key_group(dat, t, i)
    IN  CASE keep = "first" -> \E j \in g : j < i
          [] keep = "last"  -> \E j \in g : j > i
          [] OTHER          -> Cardinality(g) >= 2

\* C18: for a table with primary key find_duplicates marks, in each group of
\* rows that share their primary key values, all rows but the first with
\* keep='first', all but the last with keep='last', every row of a group of two
\* or more with keep=False; a table without primary key, and a table without
\* duplicated key, is absent from the result.
C18_MarksDuplicatesByKeep ==
    [][\A keep \in keep_args :
           find_duplicates_call(keep) =>
               \A t \in all_tables :
                   IF t \in DOMAIN primary_key_fields
                      /\ primary_key_fields[t] # <<>>
                      /\ \E i \in 1..Len(pan_dat[t].rows) :
                             marked_as_claimed(pan_dat, t, i, keep)
                   THEN /\ t \in DOMAIN rtn'
                        /\ rtn'[t] = [i \in 1..Len(pan_dat[t].rows) |->
                                         marked_as_claimed(pan_dat, t, i, keep)]
                   ELSE t \notin DOMAIN rtn']_vars

\* find_duplicates has returned for a table of three rows with one key, marking
\* all but the first, for another table with distinct keys, and for a table
\* without primary key that holds twice the same row
C18_Witness ==
    /\ returned_from("find_duplicates")
    /\ DOMAIN rtn = {"A"} /\ rtn["A"] = <<FALSE, TRUE, TRUE>>
    /\ Len(pan_dat["B"].rows) = 2
    /\ Len(pan_dat["C"].rows) = 2 /\ pan_dat["C"].rows[1] = pan_dat["C"].rows[2]

(***************************************************************************)
(* good_pan_dat_object: every table an attribute that is a DataFrame (the  *)
(* model holds nothing else) with every declared field among its columns.  *)
(***************************************************************************)
good_pan_dat_object(data_obj) ==
    /\ \A t \in all_tables : t \in DOMAIN data_obj
    /\ LET missing_fields ==
               {tf \in UNION {{<<t, f>> : f \in Range(all_fields(t))} : t \in all_tables} :
                   tf[2] \notin Range(data_obj[tf[1]].columns)}
       IN  missing_fields = {}

(***************************************************************************)
(* SpecPanDat: the constructor PanDat called with the tables of the schema *)
(* supplied or not, by name, in another order, with further columns, by    *)
(* position, or wrongly.                                                   *)
(***************************************************************************)
A_args ==
    { TableLike(<<"a", "b">>, << [a |-> Num(1), b |-> Num(2)] >>),
      TableLike(<<"b", "a">>, << [a |-> Num(1), b |-> Num(2)],
                                 [a |-> Num(2), b |-> NULL] >>),
      TableLike(<<"x", "b", "a", "y">>,
                << [x |-> Str("x"), b |-> Num(2), a |-> Num(1), y |-> Str("y")] >>),
      TableLike(<<"0", "1">>, << ("0" :> Num(1) @@ "1" :> Num(2)) >>),
      TableLike(<<"0", "1", "2">>,
                << ("0" :> Num(1) @@ "1" :> Num(2) @@ "2" :> Str("x")) >>),
      TableLike(<<"a">>, << [a |-> Num(1)] >>),
      TableLike(<<"0">>, << ("0" :> Num(1)) >>),
      NotTableLike }

B_args ==
    { TableLike(<<"a", "b">>, <<>>),
      TableLike(<<"b", "x", "a">>, << [b |-> Num(2), x |-> Str("x"), a |-> Num(1)] >>) }

C_args == { TableLike(<<"c">>, << [c |-> Num(1)] >>) }

G_args == { TableLike(<<"g">>, << [g |-> Num(1)] >>) }

\* the keyword argument for table t, where it is given
keyword(t, values) == {<<>>} \cup {<< <<t, v>> >> : v \in values}

pan_dat_args ==
    { a \o b \o c \o g : a \in keyword("A", A_args), b \in keyword("B", B_args),
                         c \in keyword("C", C_args), g \in keyword("G", G_args) }
    \cup { << <<"X", TableLike(<<"a", "b">>, <<>>)>> >> }

NextPanDat == \E i \in pan_dat_args : ConstructPanDat(i)

SpecPanDat == Init /\ [][NextPanDat]_vars

\* the declared fields of a table; a generic table declares none
primary_key_fields_of(t) == IF t \in generic_tables THEN <<>> ELSE primary_key_fields[t]
data_fields_of(t) == IF t \in generic_tables THEN <<>> ELSE data_fields[t]

\* is the value supplied for table t without column names, with a column for
\* each declared field at least?
positional(t, v) ==
    /\ v.columns = [i \in 1..Len(v.columns) |-> ToString(i - 1)]
    /\ Len(v.columns) >= Len(all_fields(t))

\* the names of the supplied columns: the declared fields for the first columns
\* of a positional value
names_of(t, v) ==
    IF positional(t, v)
    THEN [i \in 1..Len(v.columns) |->
             IF i <= Len(all_fields(t)) THEN all_fields(t)[i] ELSE v.columns[i]]
    ELSE v.columns

\* lacks the value supplied for table t a declared field?
lacks_field(t, v) ==
    t \in all_tables /\ v.is_frame
        /\ \E f \in Range(all_fields(t)) : f \notin Range(names_of(t, v))

\* C19: PanDat either raises or leaves an object good_pan_dat_object accepts:
\* every table of the schema present with every declared field as a column, a
\* table that was not supplied with no rows; and it raises when a supplied
\* table lacks a declared field or a supplied name is no table of the schema.
C19_RaisesOrStructurallyValid ==
    [][\A init \in pan_dat_args :
           ConstructPanDat(init) =>
               /\ raised' \/
                     /\ good_pan_dat_object(pan_dat')
                     /\ \A t \in all_tables :
                            /\ Range(all_fields(t)) \subseteq Range(pan_dat'[t].columns)
                            /\ (\A i \in 1..Len(init) : init[i][1] # t)
                                   => pan_dat'[t].rows = <<>>
               /\ (\E i \in 1..Len(init) :
                       \/ init[i][1] \notin all_tables
                       \/ lacks_field(init[i][1], init[i][2])) => raised']_vars

\* PanDat has returned an object built from a table supplied by position and a
\* table supplied with further columns, the other tables not supplied
C19_Witness ==
    /\ last_call = "PanDat" /\ ~raised
    /\ pan_dat # <<>>
    /\ pan_dat["A"].columns = <<"a", "b", "2">> /\ Len(pan_dat["A"].rows) = 1
    /\ pan_dat["B"].columns = <<"a", "b", "x">>
    /\ pan_dat["C"].rows = <<>> /\ pan_dat["G"].rows = <<>>

\* C20: in a constructed PanDat the columns of each table are the primary key
\* fields in declared order, the data fields in declared order, then every
\* other supplied column in its supplied relative order; and each row holds
\* under each column the value it was supplied with.
C20_ColumnsNormalized ==
    [][\A init \in pan_dat_args :
           (ConstructPanDat(init) /\ ~raised') =>
               \A i \in 1..Len(init) :
                   LET t == init[i][1]
                       v == init[i][2]
                       names == names_of(t, v)
                       is_other(c) == c \notin Range(all_fields(t))
                   IN  /\ pan_dat'[t].columns
                              = primary_key_fields_of(t) \o data_fields_of(t)
                                    \o SelectSeq(names, is_other)
                       /\ Len(pan_dat'[t].rows) = Len(v.rows)
                       /\ \A r \in 1..Len(v.rows) : \A c \in 1..Len(names) :
                              pan_dat'[t].rows[r][names[c]] = v.rows[r][v.columns[c]]]_vars

\* PanDat has returned an object whose table A was supplied with its fields in
\* another order between further columns
C20_Witness ==
    /\ last_call = "PanDat" /\ ~raised
    /\ pan_dat # <<>>
    /\ pan_dat["A"].columns = <<"a", "b", "x", "y">>
    /\ pan_dat["B"].columns = <<"a", "b", "x">>

(***************************************************************************)
(* Properties of Spec, continued.                                          *)
(***************************************************************************)
\* is table no table of the schema, or field no field of it?
no_such_field(table, field) ==
    \/ table \notin all_tables
    \/ table \notin generic_tables /\ field \notin Range(all_fields(table))

refused == raised' /\ UNCHANGED schema_vars

\* C21: before the first PanDat each schema mutator raises and leaves the schema
\* unchanged when the table it names is not declared or the field it names is
\* no field of that table; set_data_type, set_default_value, set_default_values
\* and add_foreign_key raise for a generic table too; and no generic table
\* carries a type rule, a default value or a foreign key.
C21_UnknownTableOrFieldRefused ==
    /\ [](\A g \in generic_tables :
              /\ \A tf \in DOMAIN data_types \cup DOMAIN default_values : tf[1] # g
              /\ \A fk \in foreign_keys : fk.native_table # g /\ fk.foreign_table # g)
    /\ [][~has_been_used =>
            /\ \A t \in table_args, f \in field_args :
                   (no_such_field(t, f) \/ t \in generic_tables) =>
                       /\ \A a \in data_type_args : SetDataType(t, f, a) => refused
                       /\ \A v \in default_value_args :
                              SetDefaultValue(t, f, v) => refused
            /\ \A t \in table_args, f \in field_args :
                   (no_such_field(t, f) /\ ClearDataType(t, f)) => refused
            /\ \A d \in tableDefaults_args :
                   (/\ SetDefaultValues(d)
                    /\ \E i \in 1..Len(d) :
                           no_such_field(d[i][1], d[i][2]) \/ d[i][1] \in generic_tables)
                       => refused
            /\ \A k \in add_foreign_key_args :
                   (/\ AddForeignKey(k[1], k[2], k[3])
                    /\ \/ \E t \in {k[1], k[2]} : t \notin all_tables \/ t \in generic_tables
                       \/ \E i \in 1..Len(k[3]) :
                              Len(k[3][i]) = 2 /\ (\/ no_such_field(k[1], k[3][i][1])
                                                   \/ no_such_field(k[2], k[3][i][2])))
                       => refused
            /\ \A t \in predicate_table_args, q \in predicate_args,
                  n \in predicate_name_args :
                   (t \notin all_tables /\ AddDataRowPredicate(t, q, n)) => refused
            /\ \A nt \in native_table_args :
                   (nt # "None" /\ nt \notin all_tables /\ ClearForeignKeys(nt))
                       => refused]_vars


(***************************************************************************)
(* The registry of row predicates: add_data_row_predicate called with      *)
(* every kind of predicate and name on the tables A and B, MaxRegistered   *)
(* predicates at most being registered at a time.  An integer name is      *)
(* written as its digits, so the name "0" is the integer 0 given by the    *)
(* caller.                                                                 *)
(***************************************************************************)
MaxRegistered == 3

registry_table_args == {"A", "B", "X"}
registry_predicate_args == {"None", "not callable", "no_null", "all_equal"}
registry_name_args == {"None", "0", "p"}

NextPredicates ==
    \E t \in registry_table_args, p \in registry_predicate_args, n \in registry_name_args :
        /\ p \notin {"None", "not callable"} =>
               Cardinality(DOMAIN data_row_predicates \ {<<t, n>>}) < MaxRegistered
        /\ AddDataRowPredicate(t, p, n)

SpecPredicates == Init /\ [][NextPredicates]_vars

\* the smallest non-negative integer that is no name of a predicate of the table
smallest_unregistered(table) ==
    CHOOSE i \in 0..(MaxRegistered + 1) :
        /\ <<table, ToString(i)>> \notin DOMAIN data_row_predicates
        /\ \A j \in 0..(i - 1) : <<table, ToString(j)>> \in DOMAIN data_row_predicates

\* every entry but the one of (table, name) is as it was
other_entries_unchanged(table, name) ==
    /\ DOMAIN data_row_predicates' \ {<<table, name>>}
           = DOMAIN data_row_predicates \ {<<table, name>>}
    /\ \A tp \in DOMAIN data_row_predicates \ {<<table, name>>} :
           data_row_predicates'[tp] = data_row_predicates[tp]

\* C22: in Building state, add_data_row_predicate with a callable predicate
\* returns and registers it under (table, name), replacing what was there,
\* the omitted name standing for the smallest non-negative integer that is
\* not registered for the table; with a null predicate it returns, also when
\* there is no entry, and the entry of (table, name) is gone; no other entry
\* changes in either case.  Hence the registry maps each (table, name) to the
\* predicate added last and not deleted since.
C22_RegistryHoldsLatestPredicate ==
    [][\A t \in all_tables, p \in {"None", "no_null", "all_equal"}, n \in registry_name_args :
          ~has_been_used /\ AddDataRowPredicate(t, p, n) =>
              LET name == IF n = "None" THEN ToString(smallest_unregistered(t)) ELSE n
              IN  /\ ~raised'
                  /\ other_entries_unchanged(t, name)
                  /\ IF p = "None"
                     THEN <<t, name>> \notin DOMAIN data_row_predicates'
                     ELSE /\ <<t, name>> \in DOMAIN data_row_predicates'
                          /\ data_row_predicates'[<<t, name>>] = p]_vars

\* a null predicate has deleted the predicate 0 of A and left the predicate 1,
\* so that the number of predicates of A is not the smallest free name
C22_Witness ==
    /\ returned_from("add_data_row_predicate")
    /\ <<"A", "0">> \notin DOMAIN data_row_predicates
    /\ <<"A", "1">> \in DOMAIN data_row_predicates
    /\ data_row_predicates[<<"A", "1">>] = "all_equal"


(***************************************************************************)
(* Properties of SpecData: find_data_row_failures.                         *)
(***************************************************************************)
\* C23: find_data_row_failures returns; (table, predicate name) is in its
\* result iff the predicate is falsy on some row of the table, the row given
\* with every field of the table, a null like any other value; and the mask
\* reported is true at exactly the rows on which the predicate is falsy.
C23_FalsyRowsReported ==
    last_call = "find_data_row_failures" =>
        /\ ~raised
        /\ \A tp \in DOMAIN data_row_predicates :
            LET rows == pan_dat_at_call[tp[1]].rows
                falsy == {i \in 1..Len(rows) :
                             /\ DOMAIN rows[i] = Range(all_fields(tp[1]))
                             /\ ~apply_predicate(data_row_predicates[tp], rows[i])}
            IN  /\ tp \in DOMAIN rtn <=> falsy # {}
                /\ tp \in DOMAIN rtn =>
                       /\ Len(rtn[tp]) = Len(rows)
                       /\ \A i \in 1..Len(rows) : rtn[tp][i] <=> i \in falsy


(***************************************************************************)
(* good_pan_dat_object called by the user on any object: data_obj maps the *)
(* names of its attributes to their values, a DataFrame (is_frame TRUE,    *)
(* with its columns) or something else (is_frame FALSE).  The result holds *)
(* the value returned and the arguments of the calls of                    *)
(* bad_message_handler in order.  all_tables is a frozenset, iterated in   *)
(* an order that depends on the hashes of the names, so the loop can meet  *)
(* any table with a wrong attribute first.                                 *)
(***************************************************************************)
message(text, table, fields) == [text |-> text, table |-> table, fields |-> fields]

\* the tables that are no attribute of data_obj
not_an_attribute_only(data_obj) == {t \in all_tables : t \notin DOMAIN data_obj}

\* the tables at which the loop of lines 487-493 returns
no_frame_for(data_obj) ==
    {t \in all_tables : t \notin DOMAIN data_obj \/ ~data_obj[t].is_frame}

missing_fields_of(data_obj) ==
    {tf \in UNION {{<<t, f>> : f \in Range(all_fields(t))} : t \in all_tables} :
        tf[2] \notin Range(data_obj[tf[1]].columns)}

good_pan_dat_object_results(data_obj) ==
    IF no_frame_for(data_obj) # {}
    THEN {[returned |-> FALSE,
           messages |-> << IF t \notin DOMAIN data_obj
                           THEN message("not an attribute.", t, {})
                           ELSE message("is not a DataFrame", t, {}) >>] :
              t \in no_frame_for(data_obj)}
    ELSE IF missing_fields_of(data_obj) # {}
    THEN {[returned |-> FALSE,
           messages |-> << message("missing from the data", "",
                                   missing_fields_of(data_obj)) >>]}
    ELSE {[returned |-> TRUE, messages |-> <<>>]}

GoodPanDatObject(data_obj) ==
    /\ pc = "idle"
    /\ rtn' \in good_pan_dat_object_results(data_obj)
    /\ pan_dat_at_call' = data_obj
    /\ last_call' = "good_pan_dat_object"
    /\ raised' = FALSE
    /\ has_been_used' = has_been_used_after_good_pan_dat_object(has_been_used)
    /\ UNCHANGED <<schema_vars, build_vars, pc, remove_rows, pan_dat>>

\* what an attribute named as a table may hold
attribute_args(t) ==
    CASE t = "A" -> {NotTableLike, TableLike(<<"a", "b">>, <<>>),
                     TableLike(<<"a">>, <<>>), TableLike(<<"b", "x", "a">>, <<>>)}
      [] t = "B" -> {NotTableLike, TableLike(<<"a", "b">>, <<>>), TableLike(<<"b">>, <<>>)}
      [] t = "C" -> {TableLike(<<"c">>, <<>>), TableLike(<<>>, <<>>)}
      [] t = "G" -> {NotTableLike, TableLike(<<"g">>, <<>>)}

data_obj_args ==
    UNION {{d \in [S -> UNION {attribute_args(t) : t \in all_tables}] :
               \A t \in S : d[t] \in attribute_args(t)} : S \in SUBSET all_tables}

NextGoodPanDatObject == \E d \in data_obj_args : GoodPanDatObject(d)

SpecGoodPanDatObject == Init /\ [][NextGoodPanDatObject]_vars

\* the message is about something that is wrong with data_obj
describes_a_failure(msg, data_obj) ==
    CASE msg.text = "not an attribute." ->
             msg.table \in all_tables /\ msg.table \notin DOMAIN data_obj
      [] msg.text = "is not a DataFrame" ->
             /\ msg.table \in all_tables
             /\ msg.table \in DOMAIN data_obj
             /\ ~data_obj[msg.table].is_frame
      [] msg.text = "missing from the data" ->
             /\ msg.fields # {}
             /\ \A tf \in msg.fields :
                    /\ tf[1] \in all_tables
                    /\ tf[2] \in Range(primary_key_fields_of(tf[1]))
                                     \cup Range(data_fields_of(tf[1]))
                    /\ tf[2] \notin Range(data_obj[tf[1]].columns)
      [] OTHER -> FALSE

\* C24: good_pan_dat_object returns True iff every table of the schema is an
\* attribute of data_obj, is a DataFrame and has every primary key field and
\* data field among its columns; when it returns False the handler has been
\* called once, with a failure of data_obj, and when it returns True the
\* handler has not been called.
C24_TrueIffGoodAndOneMessage ==
    last_call = "good_pan_dat_object" =>
        LET data_obj == pan_dat_at_call
            good == \A t \in all_tables :
                        /\ t \in DOMAIN data_obj
                        /\ data_obj[t].is_frame
                        /\ \A f \in Range(primary_key_fields_of(t))
                                        \cup Range(data_fields_of(t)) :
                               f \in Range(data_obj[t].columns)
        IN  /\ ~raised
            /\ rtn.returned <=> good
            /\ rtn.returned => rtn.messages = <<>>
            /\ ~rtn.returned =>
                   /\ Len(rtn.messages) = 1
                   /\ describes_a_failure(rtn.messages[1], data_obj)

\* good_pan_dat_object has returned False for an object whose attribute G is
\* no DataFrame while every declared field is there, and has called the
\* handler once
C24_Witness ==
    /\ last_call = "good_pan_dat_object"
    /\ DOMAIN pan_dat_at_call = all_tables
    /\ ~pan_dat_at_call["G"].is_frame
    /\ \A t \in all_tables \ {"G"} :
           pan_dat_at_call[t].is_frame
           /\ Range(all_fields(t)) \subseteq Range(pan_dat_at_call[t].columns)
    /\ ~rtn.returned
    /\ Len(rtn.messages) = 1


(***************************************************************************)
(* Properties of SpecData: the masks of find_foreign_key_failures.         *)
(***************************************************************************)
\* the positions of the native rows of fk without matching foreign row
failing_rows(fk, dat) ==
    {i \in 1..Len(dat[fk.native_table].rows) : ~has_matching_foreign_row(fk, dat, i)}

null_free(fk, dat) ==
    \A i \in 1..Len(dat[fk.native_table].rows) :
        ~holds_null(dat[fk.native_table].rows[i], native_fields(fk.mappings))

\* C25: find_foreign_key_failures(as_table=False) holds a foreign key iff some
\* native row of it fails, so never when the native table is empty; the mask of
\* a foreign key has one entry per native row, in the order of the rows, true
\* at exactly the rows without matching foreign row, also when foreign rows
\* repeat the mapped values (stated for native tables without null in a
\* mapped field; null is the subject of C9).
C25_MaskPerNativeRow ==
    returned_from("find_foreign_key_failures") =>
        \A fk \in foreign_keys :
            null_free(fk, pan_dat) =>
                /\ fk \in DOMAIN rtn <=> failing_rows(fk, pan_dat) # {}
                /\ fk \in DOMAIN rtn =>
                    /\ DOMAIN rtn[fk] = 1..Len(pan_dat[fk.native_table].rows)
                    /\ \A i \in DOMAIN rtn[fk] :
                           rtn[fk][i] <=> i \in failing_rows(fk, pan_dat)


(***************************************************************************)
(* Properties of SpecData: what remove_foreign_key_failures keeps.         *)
(***************************************************************************)
\* the rows of dat at the positions of keep, table by table
rows_kept(dat, keep) ==
    [t \in DOMAIN dat |->
        DataFrame(dat[t].columns,
                  select_rows(dat[t].rows,
                              [i \in 1..Len(dat[t].rows) |-> i \in keep[t]]))]

\* the choices of rows of dat in which every native row of every foreign key
\* has a matching foreign row
closed_choices(dat) ==
    {keep \in [DOMAIN dat -> SUBSET (1..MaxRows)] :
        /\ \A t \in DOMAIN dat : keep[t] \subseteq 1..Len(dat[t].rows)
        /\ \A fk \in foreign_keys :
            \A i \in 1..Len(rows_kept(dat, keep)[fk.native_table].rows) :
                has_matching_foreign_row(fk, rows_kept(dat, keep), i)}

\* the largest of them: a union of closed choices is closed
largest_closed_choice(dat) ==
    [t \in DOMAIN dat |-> UNION {keep[t] : keep \in closed_choices(dat)}]

\* C26: the rows that remove_foreign_key_failures leaves are the largest set of
\* rows of the data at the call in which every native row of every foreign key
\* has a matching foreign row; hence a row that is no failure and whose
\* matching rows stay is kept, and a table that is native to no foreign key is
\* as it was (stated for data without null in a mapped native field; null is
\* the subject of C9).
C26_RemovesNoMoreThanNecessary ==
    (/\ returned_from("remove_foreign_key_failures")
     /\ \A fk \in foreign_keys : null_free(fk, pan_dat_at_call)) =>
        /\ pan_dat = rows_kept(pan_dat_at_call, largest_closed_choice(pan_dat_at_call))
        /\ \A t \in all_tables :
               (\A fk \in foreign_keys : fk.native_table # t) =>
                   pan_dat[t] = pan_dat_at_call[t]


(***************************************************************************)
(* Properties of Spec: clear_foreign_keys.                                 *)
(***************************************************************************)
\* C27: in Building state clear_foreign_keys(native_table) returns, also when
\* it finds nothing to remove, and leaves exactly the foreign keys whose native
\* table is another one; without argument it leaves no foreign key; type
\* rules, default values and predicates stay as they were.
C27_ClearsKeysOfNativeTableOnly ==
    [][\A nt \in {"None"} \cup all_tables :
          ~has_been_used /\ ClearForeignKeys(nt) =>
              /\ ~raised'
              /\ nt = "None" => foreign_keys' = {}
              /\ nt # "None" =>
                     /\ foreign_keys' \subseteq foreign_keys
                     /\ \A fk \in foreign_keys :
                            fk \in foreign_keys' <=> fk.native_table # nt
              /\ UNCHANGED <<data_types, default_values, data_row_predicates>>]_vars

\* clear_foreign_keys has returned and has left the foreign key of another
\* native table, in a schema that holds a type rule and a predicate
C27_Witness ==
    /\ returned_from("clear_foreign_keys")
    /\ foreign_keys = {FK("B", "A", << <<"b", "a">> >>)}
    /\ DOMAIN data_types # {}
    /\ DOMAIN data_row_predicates # {}


(***************************************************************************)
(* SpecValidate: a factory with the schema of SpecData, sealed or not, and *)
(* a data object it has not built (made by a clone of the factory or by    *)
(* hand), given to the find functions, to remove_foreign_key_failures and  *)
(* to good_pan_dat_object.                                                 *)
(***************************************************************************)
MaxExternalRows == 1

\* pan_dat as the argument of good_pan_dat_object
as_data_obj(dat) == [t \in DOMAIN dat |-> TableLike(dat[t].columns, dat[t].rows)]

InitValidate ==
    /\ has_been_used \in BOOLEAN
    /\ data_types = data_types_of_SpecData
    /\ default_values = initial_default_values
    /\ data_row_predicates = predicates_of_SpecData
    /\ foreign_keys \in fk_schemas
    /\ nan_tuples_join \in BOOLEAN
    /\ dict_keeps_order = TRUE
    /\ \E nA \in 0..MaxExternalRows : \E nB \in 0..(MaxExternalRows - nA) :
       \E nC \in 0..(MaxExternalRows - nA - nB) :
       \E rA \in [1..nA -> rows_of("A")] : \E rB \in [1..nB -> rows_of("B")] :
       \E rC \in [1..nC -> rows_of("C")] :
           pan_dat = [A |-> DataFrame(all_fields("A"), rA),
                      B |-> DataFrame(all_fields("B"), rB),
                      C |-> DataFrame(all_fields("C"), rC),
                      G |-> empty_frame("G")]
    /\ pc = "idle"
    /\ remove_rows = <<>>
    /\ pan_dat_at_call = pan_dat
    /\ last_call = "PanDatFactory"
    /\ raised = FALSE
    /\ rtn = <<>>

NextValidate ==
    \/ RemoveCall
    \/ RemoveIterate
    \/ RemoveReturn
    \/ FindForeignKeyFailures
    \/ FindDuplicates
    \/ FindDataTypeFailures
    \/ FindDataRowFailures
    \/ GoodPanDatObject(as_data_obj(pan_dat))

SpecValidate == InitValidate /\ [][NextValidate]_vars

\* C28: no step of find_duplicates, find_data_type_failures,
\* find_data_row_failures, find_foreign_key_failures,
\* remove_foreign_key_failures or good_pan_dat_object changes the flag
\* _has_been_used, the type rules, the default values, the foreign keys or the
\* predicates of the factory (its tables and fields are fixed at construction);
\* so a factory in Building state that is given these calls only is in
\* Building state after them.
C28_ValidationLeavesSchemaAlone ==
    [][/\ has_been_used' = has_been_used
       /\ data_types' = data_types
       /\ default_values' = default_values
       /\ foreign_keys' = foreign_keys
       /\ data_row_predicates' = data_row_predicates]_vars

\* a factory in Building state has repaired a data object: rows were removed
C28_Witness ==
    /\ ~has_been_used
    /\ returned_from("remove_foreign_key_failures")
    /\ total_rows(pan_dat) < total_rows(pan_dat_at_call)


(***************************************************************************)
(* clone.  A second factory is a record of what a PanDatFactory holds; the *)
(* clone that clone() returns is kept in rtn, and the calls made on it     *)
(* change rtn.                                                             *)
(***************************************************************************)
\* schema(include_ancillary_info=True); an entry of tables_fields is '*' for
\* a generic table and the two lists of fields for another
schema ==
    [tables_fields |->
        [t \in all_tables |->
            IF t \in generic_tables
            THEN [generic |-> TRUE, primary_key_fields |-> <<>>, data_fields |-> <<>>]
            ELSE [generic |-> FALSE, primary_key_fields |-> primary_key_fields[t],
                  data_fields |-> data_fields[t]]],
     foreign_keys |-> foreign_keys_property,
     default_values |-> default_values,
     data_types |-> data_types]

\* PanDatFactory(**tables_fields): the state __init__ leaves
PanDatFactory(tables_fields) ==
    LET typical == {t \in DOMAIN tables_fields : ~tables_fields[t].generic}
    IN  [has_been_used |-> FALSE,
         generic_tables |-> DOMAIN tables_fields \ typical,
         primary_key_fields |-> [t \in typical |-> tables_fields[t].primary_key_fields],
         data_fields |-> [t \in typical |-> tables_fields[t].data_fields],
         default_values |->
             [tf \in UNION {{<<t, f>> : f \in Range(tables_fields[t].data_fields)} :
                                t \in typical} |-> Num(0)],
         data_types |-> <<>>,
         data_row_predicates |-> <<>>,
         foreign_keys |-> {},
         raised |-> FALSE]

\* the fields of TypeDictionary in the order of the namedtuple
TypeDictionary_fields ==
    <<"number_allowed", "inclusive_min", "inclusive_max", "min", "max",
      "must_be_int", "strings_allowed", "nullable">>

\* the arguments set_data_type(t, f, *dt) receives: the fields of dt in their
\* order, taken by the parameters of set_data_type in theirs
unpacked(dt) ==
    LET parameters == <<"number_allowed", "inclusive_min", "inclusive_max", "min",
                        "max", "must_be_int", "strings_allowed", "nullable">>
    IN  [p \in Range(parameters) |->
            dt[TypeDictionary_fields[
                   CHOOSE i \in 1..Len(parameters) : parameters[i] = p]]]

\* create_from_full_schema that reads tables_fields only
create_from_tables_fields(full_schema) == PanDatFactory(full_schema.tables_fields)

\* create_from_full_schema: a new factory, then add_foreign_key for each
\* foreign key, set_data_type for each type rule and set_default_value for
\* each default value; raised when one of these calls raises
create_from_full_schema(full_schema) ==
    LET rtn0 == PanDatFactory(full_schema.tables_fields)
        fks == full_schema.foreign_keys
        dts == full_schema.data_types
        dvs == full_schema.default_values
        is_field(table, field) ==
            /\ table \in DOMAIN rtn0.primary_key_fields
            /\ field \in Range(rtn0.primary_key_fields[table])
                             \cup Range(rtn0.data_fields[table])
        fk_accepted(fk) ==
            /\ \A t \in {fk.native_table, fk.foreign_table} :
                   t \in DOMAIN rtn0.primary_key_fields
            /\ fk.mappings # <<>>
            /\ \A i \in 1..Len(dict_items(fk.mappings)) :
                   /\ is_field(fk.native_table, dict_items(fk.mappings)[i][1])
                   /\ is_field(fk.foreign_table, dict_items(fk.mappings)[i][2])
        dt_accepted(tf) ==
            /\ is_field(tf[1], tf[2])
            /\ unpacked(dts[tf]).number_allowed =>
                   /\ numericish(unpacked(dts[tf]).max)
                   /\ numericish(unpacked(dts[tf]).min)
                   /\ bound_geq(unpacked(dts[tf]).max, unpacked(dts[tf]).min)
        dv_accepted(tf) == is_field(tf[1], tf[2]) /\ acceptable_default(dvs[tf])
    IN  [rtn0 EXCEPT
            !.foreign_keys =
                {FK(fk.native_table, fk.foreign_table, dict_items(fk.mappings)) :
                    fk \in fks},
            !.data_types = [tf \in DOMAIN dts |-> stored_data_type(unpacked(dts[tf]))],
            !.default_values =
                [tf \in DOMAIN rtn0.default_values \cup DOMAIN dvs |->
                    IF tf \in DOMAIN dvs THEN dvs[tf] ELSE rtn0.default_values[tf]],
            !.raised = \/ \E fk \in fks : ~fk_accepted(fk)
                       \/ \E tf \in DOMAIN dts : ~dt_accepted(tf)
                       \/ \E tf \in DOMAIN dvs : ~dv_accepted(tf)]

\* clone(): create_from_full_schema(self.schema(True)), then
\* add_data_row_predicate(tbl, predicate=p, predicate_name=pn) for each predicate
clone ==
    LET rtn1 == create_from_full_schema(schema)
        known(tp) == tp[1] \in DOMAIN rtn1.primary_key_fields \cup rtn1.generic_tables
    IN  [rtn1 EXCEPT
            !.data_row_predicates =
                [tp \in DOMAIN data_row_predicates |-> data_row_predicates[tp]],
            !.raised = \/ rtn1.raised
                       \/ \E tp \in DOMAIN data_row_predicates :
                              ~known(tp) \/ data_row_predicates[tp] = "not callable"]

Clone ==
    /\ pc = "idle"
    /\ rtn' = clone
    /\ last_call' = "clone"
    /\ raised' = clone.raised
    /\ UNCHANGED <<has_been_used, schema_vars, pan_dat, pc, remove_rows,
                   pan_dat_at_call, build_vars>>

\* does the clone hold the container of the original under this attribute?
\* __init__ gives each factory containers of its own, and the calls of
\* create_from_full_schema and clone put values into them
shares_container(attribute) == FALSE

\* the clone once a call on it has returned:
\*   rtn.set_default_value("A", "b", 2), rtn.clear_data_type("A", "b"),
\*   rtn.clear_foreign_keys(), rtn.add_data_row_predicate("A", None, 0),
\*   rtn.PanDat()
clone_after(call) ==
    CASE call = "clone.set_default_value" ->
             [rtn EXCEPT !.default_values = with_entry(@, <<"A", "b">>, Num(2))]
      [] call = "clone.clear_data_type" ->
             [rtn EXCEPT !.data_types = without_entries(@, {<<"A", "b">>})]
      [] call = "clone.clear_foreign_keys" ->
             [rtn EXCEPT !.foreign_keys = {}]
      [] call = "clone.add_data_row_predicate" ->
             [rtn EXCEPT !.data_row_predicates = without_entries(@, {<<"A", "0">>})]
      [] call = "clone.PanDat" ->
             [rtn EXCEPT !.has_been_used = TRUE]

\* a call on the clone: a mutator raises once the clone is used, but for
\* clear_data_type on a field without rule, which returns first
CloneCall(call) ==
    /\ last_call' = call
    /\ IF /\ rtn.has_been_used
          /\ call # "clone.PanDat"
          /\ ~(call = "clone.clear_data_type" /\ <<"A", "b">> \notin DOMAIN rtn.data_types)
       THEN raised' = TRUE /\ UNCHANGED <<rtn, schema_vars>>
       ELSE /\ raised' = FALSE
            /\ rtn' = clone_after(call)
            /\ data_types' = IF shares_container("_data_types")
                             THEN rtn'.data_types ELSE data_types
            /\ default_values' = IF shares_container("_default_values")
                                 THEN rtn'.default_values ELSE default_values
            /\ foreign_keys' = IF shares_container("_foreign_keys")
                               THEN rtn'.foreign_keys ELSE foreign_keys
            /\ data_row_predicates' = IF shares_container("_data_row_predicates")
                                      THEN rtn'.data_row_predicates
                                      ELSE data_row_predicates
    /\ UNCHANGED <<has_been_used, pan_dat, pc, remove_rows, pan_dat_at_call, build_vars>>

(***************************************************************************)
(* SpecClone: a factory is given type rules, default values, foreign keys  *)
(* and predicates, is used or not, and is cloned; then the clone is        *)
(* changed and used.                                                       *)
(***************************************************************************)
clone_calls == {"clone.set_default_value", "clone.clear_data_type",
                "clone.clear_foreign_keys", "clone.add_data_row_predicate",
                "clone.PanDat"}

NextClone ==
    \/ /\ rtn = <<>>
       /\ \/ \E a \in {TypeDictionary(TRUE, TRUE, FALSE, Fin(1), Fin(2), TRUE,
                                      Strings({}), FALSE),
                       TypeDictionary(FALSE, FALSE, FALSE, Fin(2), Fin(1), TRUE,
                                      Strings({"x"}), TRUE)} :
                 SetDataType("A", "b", a)
          \/ SetDefaultValue("A", "b", Num(1))
          \/ \E m \in {<< <<"b", "a">> >>, << <<"b", "a">>, <<"a", "b">> >>} :
                 AddForeignKey("A", "B", m)
          \/ /\ Cardinality(predicates_of("A")) < MaxPredicates
             /\ AddDataRowPredicate("A", "no_null", "None")
          \/ ConstructPanDat(<<>>)
    \/ Clone
    \/ /\ rtn # <<>>
       /\ \E call \in clone_calls : CloneCall(call)

SpecClone == Init /\ [][NextClone]_vars

\* the foreign keys of a factory with their cardinality
descriptors_of(factory) ==
    LET half(tbl, fields) ==
            IF /\ factory.primary_key_fields[tbl] # <<>>
               /\ Range(factory.primary_key_fields[tbl]) \subseteq fields
            THEN "one" ELSE "many"
    IN  {ForeignKey(fk.native_table, fk.foreign_table, fk.mappings,
                    [native |-> half(fk.native_table, Range(native_fields(fk.mappings))),
                     foreign |-> half(fk.foreign_table, Range(foreign_fields(fk.mappings)))]) :
            fk \in factory.foreign_keys}

\* C29: clone() returns, whether the original is used or not, a factory that
\* is not used and has the tables, the primary key fields and data fields,
\* the generic tables, the type rules, the default values, the foreign keys
\* with their cardinality and the predicates of the original; and no call on
\* the clone changes the flag, the type rules, the default values, the foreign
\* keys or the predicates of the original.
C29_CloneEqualAndIndependent ==
    /\ [](last_call = "clone" =>
            /\ ~raised
            /\ ~rtn.has_been_used
            /\ rtn.generic_tables = generic_tables
            /\ DOMAIN rtn.primary_key_fields = all_tables \ generic_tables
            /\ \A t \in all_tables \ generic_tables :
                   /\ rtn.primary_key_fields[t] = primary_key_fields[t]
                   /\ rtn.data_fields[t] = data_fields[t]
            /\ rtn.data_types = data_types
            /\ rtn.default_values = default_values
            /\ descriptors_of(rtn) = foreign_keys_property
            /\ rtn.data_row_predicates = data_row_predicates)
    /\ [][last_call' \in clone_calls =>
             /\ has_been_used' = has_been_used
             /\ data_types' = data_types
             /\ default_values' = default_values
             /\ foreign_keys' = foreign_keys
             /\ data_row_predicates' = data_row_predicates]_vars

\* the clone of a used factory with a type rule, a compound foreign key and a
\* predicate has been changed: it has lost its foreign keys and its type
\* rule, and the original has them
C29_Witness ==
    /\ has_been_used
    /\ last_call \in clone_calls
    /\ ~raised
    /\ ~rtn.has_been_used
    /\ rtn.foreign_keys = {}
    /\ \E fk \in foreign_keys : Len(fk.mappings) = 2
    /\ DOMAIN rtn.data_types = {}
    /\ DOMAIN data_types # {}
    /\ DOMAIN data_row_predicates # {}

====
